---- MODULE Spec2Model ----
(***************************************************************************)
(* A model of the splunk-token-operator: the SplunkToken reconciler, the   *)
(* ClusterDeployment reconciler, the Splunk ACS client they drive, the     *)
(* Kubernetes object store they write to and the Splunk server holding the *)
(* HEC tokens.  Every reconcile pass is a sequence of steps, one per store *)
(* operation or HTTP request, so that passes can fail, crash and overlap.  *)
(***************************************************************************)
EXTENDS Integers, Sequences, FiniteSets, TLC

(* ------------------------------ bounds --------------------------------- *)

\* The clock runs from 0 to MaxTime.
MaxTime == 2
\* At most MaxTokens SplunkToken objects are ever created in the store.
MaxTokens == 2
\* At most MaxValues HEC tokens are ever created on the Splunk server.
MaxValues == 2
\* Resource versions of the SplunkToken the ClusterDeployment reconciler still
\* updates: a pass that updates at every run stops here.
MaxVersion == 6

(* --------------------------- program constants ------------------------- *)

OwnedObjectName == "splunk-hec-token"
SecretDataKey == "outputs.conf"
TokenFinalizer == "splunktoken.managed.openshift.io/finalizer"
ClusterIDLabel == "api.openshift.com/id"
ClusterTypeLabel == "ext-hypershift.openshift.io/cluster-type"
TokenObjectName == "cluster"
StatusAccepted == 202
StatusConflict == 409
StatusNotFound == 404
StatusBadRequest == 400

(* ------------------------------ inputs --------------------------------- *)

Namespace == "test-namespace"
ClusterName == "foo"
ClusterID == "foo-cluster-id"

\* The workers that may run SplunkTokenReconciler.Reconcile for the one key.
Workers == {"w1", "w2"}

\* The values the Splunk server hands out, in order of creation.
TokenValues == <<"guid-1", "guid-2", "guid-3", "guid-4">>

\* Configured TokenMaxAge, in clock ticks.
MaxAges == {0, 1}

\* A Go []string: the nil slice, or a slice with the elements elems, which may
\* be none. reflect.DeepEqual and == nil tell the nil slice from the empty one;
\* len, range, append and slices.Contains do not.
NilSlice == [isNil |-> TRUE, elems |-> <<>>]

Slice(elems) == [isNil |-> FALSE, elems |-> elems]

\* Index configurations a deployment type may be given. A configuration that
\* does not set AllowedIndexes has the nil slice.
IndexConfigs ==
    { [DefaultIndex |-> "classic_index", AllowedIndexes |-> Slice(<<"another_classic_index">>)],
      [DefaultIndex |-> "classic_index", AllowedIndexes |-> Slice(<<"classic_index">>)],
      [DefaultIndex |-> "", AllowedIndexes |-> NilSlice] }

HCPConfig == [DefaultIndex |-> "hcp_index", AllowedIndexes |-> Slice(<<"another_hcp_index">>)]

\* Label sets a ClusterDeployment may carry.
LabelSets ==
    { [l \in {ClusterIDLabel} |-> ClusterID],
      [l \in {ClusterIDLabel, ClusterTypeLabel} |->
          IF l = ClusterIDLabel THEN ClusterID ELSE "management-cluster"],
      [l \in {ClusterTypeLabel} |-> "management-cluster"] }

\* Label sets for the ClusterDeployment reconciler taken alone: also a cluster
\* type that is not "management-cluster".
CdLabelSets ==
    LabelSets \cup
    { [l \in {ClusterIDLabel, ClusterTypeLabel} |->
          IF l = ClusterIDLabel THEN ClusterID ELSE "Management-Cluster"] }

\* Index configurations for the ClusterDeployment reconciler taken alone: also
\* the same two indexes in either order, and a configuration that sets
\* AllowedIndexes to the empty list.
CdIndexConfigs ==
    IndexConfigs \cup
    { [DefaultIndex |-> "classic_index",
       AllowedIndexes |-> Slice(<<"classic_index", "another_classic_index">>)],
      [DefaultIndex |-> "classic_index",
       AllowedIndexes |-> Slice(<<"another_classic_index", "classic_index">>)],
      [DefaultIndex |-> "", AllowedIndexes |-> Slice(<<>>)] }

\* Names a SplunkToken found in the store may have in its spec.
StoredTokenNames == {ClusterID, "old-cluster-id"}

(* ------------------------------- state --------------------------------- *)

VARIABLES
    now,          \* the wall clock (time.Now)
    splunkConfig, \* config.Splunk: General.TokenMaxAge, General.SplunkInstance, Classic, HCP
    cd,           \* the ClusterDeployment object in the store
    token,        \* the SplunkToken object "cluster" in the store
    secret,       \* the Secret object "splunk-hec-token" in the store
    syncset,      \* the SyncSet object for the Secret in the store
    remote,       \* the HEC tokens held by the Splunk server
    nextUid,      \* UIDs the store has handed out to SplunkToken objects
    nextValue,    \* token values the Splunk server has handed out
    st,           \* per worker: the running SplunkTokenReconciler.Reconcile pass
    cdr,          \* the running ClusterDeploymentReconciler.Reconcile pass
    api           \* the Splunk ACS client taken alone: NewClient and the last call on it

vars == <<now, splunkConfig, cd, token, secret, syncset, remote, nextUid, nextValue, st, cdr, api>>

(* ----------------------------- data model ------------------------------ *)

\* stv1alpha1.SplunkTokenSpec
SplunkTokenSpec(name, defaultIndex, allowedIndexes) ==
    [Name |-> name, DefaultIndex |-> defaultIndex, AllowedIndexes |-> allowedIndexes]

ZeroSpec == SplunkTokenSpec("", "", NilSlice)

\* json.Marshal of a SplunkTokenSpec and the decoding of what it wrote: an
\* allowedIndexes without elements is left out of the JSON (omitempty, as the
\* request body {"name":"bar"} of the client tests shows) and is the nil slice
\* when read back.
MarshalSpec(spec) ==
    [spec EXCEPT !.AllowedIndexes = IF @.elems = <<>> THEN NilSlice ELSE @]

\* The absent SplunkToken (also the zero value of a SplunkToken struct).
NoToken ==
    [exists |-> FALSE, uid |-> 0, resourceVersion |-> 0, Spec |-> ZeroSpec,
     CreationTimestamp |-> 0, DeletionTimestamp |-> FALSE, Finalizers |-> {},
     owner |-> ""]

\* The absent Secret.
NoSecret ==
    [exists |-> FALSE, Name |-> "", Namespace |-> "", Data |-> <<>>,
     Immutable |-> FALSE, owner |-> 0]

\* hivev1.SyncSet: no SyncSet in the store.
NoSyncSet == [exists |-> FALSE, ClusterDeploymentRefs |-> <<>>, owner |-> ""]

\* Elements of a sequence.
Range(s) == { s[i] : i \in 1..Len(s) }

(* --------------------------- the object store -------------------------- *)
(* Kubernetes semantics the reconcilers rely on: a finalizer blocks the    *)
(* physical deletion, an update carries the resource version it read, and  *)
(* owned objects are garbage collected once their owner is gone.           *)

\* client.Delete on a stored object: with finalizers the deletion timestamp is
\* set, without any the object is removed.
StoreDelete(obj) ==
    IF obj.Finalizers = {}
    THEN NoToken
    ELSE IF obj.DeletionTimestamp
         THEN obj
         ELSE [obj EXCEPT !.DeletionTimestamp = TRUE,
                          !.resourceVersion = obj.resourceVersion + 1]

\* Whether client.Update of obj is accepted: the object is still the one read.
UpdateAccepted(obj) ==
    /\ token.exists
    /\ token.uid = obj.uid
    /\ token.resourceVersion = obj.resourceVersion

\* The stored object after an accepted client.Update of obj: an object under
\* deletion whose last finalizer is gone is removed.
StoreUpdate(obj) ==
    IF obj.DeletionTimestamp /\ obj.Finalizers = {}
    THEN NoToken
    ELSE [obj EXCEPT !.resourceVersion = obj.resourceVersion + 1,
                     !.Spec = MarshalSpec(@)]

\* The garbage collector may remove the Secret: its owner is gone.
SecretOrphaned ==
    /\ secret.exists
    /\ ~(token.exists /\ token.uid = secret.owner)

(* --------------------------- the Splunk server ------------------------- *)

\* The server holds a token of that name.
RemoteHas(name) == \E c \in remote : c.Spec.Name = name

\* The token of that name.
RemoteToken(name) == CHOOSE c \in remote : c.Spec.Name = name

\* Statuses with which the server refuses a request without acting on it.
RefusalStatuses == {StatusBadRequest, 500}

(* ------------------------- the Splunk ACS client ----------------------- *)

\* splunkapi.HECToken
HECToken(spec, value) == [Spec |-> spec, Value |-> value]

NoHECToken == HECToken(ZeroSpec, "")

\* Mutant: the spec is sent as it was handed in.
CreateTokenPayload_AsIs(spec) == spec

\* Mutant: the default index is appended whenever it is set.
CreateTokenPayload_AlwaysAppend(spec) ==
    IF spec.DefaultIndex # ""
    THEN [spec EXCEPT !.AllowedIndexes = Slice(Append(@.elems, spec.DefaultIndex))]
    ELSE spec

\* CreateToken, the spec it sends: the default index is appended to the allowed
\* indexes when it is set and missing from them.
CreateTokenPayload(spec) ==
    IF spec.DefaultIndex # "" /\ spec.DefaultIndex \notin Range(spec.AllowedIndexes.elems)
    THEN [spec EXCEPT !.AllowedIndexes = Slice(Append(@.elems, spec.DefaultIndex))]
    ELSE spec

\* Mutant: no status of the POST is an error.
CreateTokenFails_Never(status) == FALSE

\* Mutant: 409 is an error like every other status from 400 on.
CreateTokenFails_OnConflict(status) == status >= 400

\* CreateToken returns the decoded error response for this status of the POST;
\* otherwise it goes on to getToken.
CreateTokenFails(status) == status >= 400 /\ status # StatusConflict

\* Mutant: the status of the GET is not looked at.
getTokenFails_Never(status) == FALSE

\* getToken returns the decoded error response for this status of the GET.
getTokenFails(status) == status >= 400

\* Mutant: every status below 400 is a success of the DELETE.
DeleteTokenFails_FromBadRequest(status) ==
    IF status = StatusNotFound
    THEN FALSE
    ELSE status >= 400

\* DeleteToken returns an error for this status of the DELETE.
DeleteTokenFails(status) ==
    IF status = StatusNotFound
    THEN FALSE
    ELSE status # StatusAccepted

(* ------------------ the Splunk ACS client taken alone ------------------ *)
(* NewClient and the calls on the client it returns, each HTTP round trip  *)
(* one step: the requests it sends, the statuses and bodies the server     *)
(* answers and what the call returns.                                      *)

acsHostname == "https://admin.splunk.com"
tokenManagementPath == "adminconfig/v2/inputs/http-event-collectors"
missingSplunkError == "missing Splunk instance name"
missingJWTError == "missing Splunk authentication token"

\* Instance names and JWTs the operator may be started with.
SplunkStacks == {"", "mock_splunk", "other_splunk"}
JWTs == {"", "foo"}

\* Callers hand CreateToken allowed indexes of at most MaxLen entries.
MaxLen == 2
IndexNames == {"audit_index", "other_index"}
TokenNames == {"bar", ClusterID}

\* Sequences over S of at most n entries.
SeqUpTo(S, n) == UNION { [1..k -> S] : k \in 0..n }

\* The tokens a caller may hand to CreateToken.
HECTokenInputs ==
    { HECToken(SplunkTokenSpec(name, d, a), "") :
        name \in TokenNames, d \in {""} \cup IndexNames,
        a \in {NilSlice} \cup { Slice(e) : e \in SeqUpTo(IndexNames, MaxLen) } }

\* url.JoinPath for a base without trailing slash and plain path elements:
\* the elements follow the base, each after a slash, empty elements dropped.
RECURSIVE JoinPath(_, _)
JoinPath(base, elem) ==
    IF elem = <<>>
    THEN base
    ELSE JoinPath(IF Head(elem) = "" THEN base ELSE base \o "/" \o Head(elem),
                  Tail(elem))

\* The zero value of splunkapi.Client, standing for the nil client.
NoClient == [jwt |-> "", url |-> ""]

\* Mutant: the JWT is looked at before the instance name.
NewClient_JWTFirst(splunkStack, jwt) ==
    IF jwt = ""
    THEN [client |-> NoClient, err |-> missingJWTError]
    ELSE IF splunkStack = ""
         THEN [client |-> NoClient, err |-> missingSplunkError]
         ELSE [client |-> [jwt |-> jwt,
                           url |-> JoinPath(acsHostname,
                                            <<splunkStack, tokenManagementPath>>)],
               err |-> ""]

\* splunkapi.NewClient: the client and the error it returns.
NewClient(splunkStack, jwt) ==
    IF splunkStack = ""
    THEN [client |-> NoClient, err |-> missingSplunkError]
    ELSE IF jwt = ""
         THEN [client |-> NoClient, err |-> missingJWTError]
         ELSE [client |-> [jwt |-> jwt,
                           url |-> JoinPath(acsHostname,
                                            <<splunkStack, tokenManagementPath>>)],
               err |-> ""]

\* No call has been made: the state of the client before NewClient.  token is
\* the HECToken the caller manages through the client; pc is "getToken" while
\* a CreateToken call is between its POST and its GET, and empty otherwise.
NoApi ==
    [splunkStack |-> "", jwt |-> "", call |-> "", pc |-> "", client |-> NoClient,
     err |-> "", token |-> NoHECToken, requests |-> <<>>, responses |-> <<>>,
     ret |-> NoHECToken]

\* An HTTP request of the client; body holds the spec sent, if any.
Request(method, url, jwt, contentType, body) ==
    [Method |-> method, URL |-> url, Authorization |-> "Bearer " \o jwt,
     ContentType |-> contentType, Body |-> body]

\* errorResponse.Error, without the code and message of the server.
ErrorResponse == "received error response"

\* errorResponse: no error body.
NoErrorBody == [Code |-> "", Message |-> ""]

\* The error body the server sends with a status from 400 on.
ErrorBody(status) ==
    IF status = StatusBadRequest
    THEN [Code |-> "400-oh-no-it-broke", Message |-> "halt and catch fire"]
    ELSE IF status = StatusNotFound
         THEN [Code |-> "404-not-found", Message |-> "no such token"]
         ELSE IF status >= 400
              THEN [Code |-> "500-internal", Message |-> "try again later"]
              ELSE NoErrorBody

\* An HTTP response: its status, its error body and the token in its data.
Response(status, data) ==
    [StatusCode |-> status, Error |-> ErrorBody(status), Data |-> data, Empty |-> FALSE]

\* An HTTP response whose body is empty.
EmptyResponse(status) ==
    [StatusCode |-> status, Error |-> NoErrorBody, Data |-> NoHECToken, Empty |-> TRUE]

\* The body the server of the client tests gives: the token's name and
\* nothing else, no token value.
NameOnly(name) == HECToken(SplunkTokenSpec(name, "", NilSlice), "")

\* The bodies a server may send with a status below 400 to the GET of a token:
\* the token with its value, its name only, or nothing.
GetBodies == {"token", "name", "empty"}


\* What decoding the body of a response into an errorResponse returns as the
\* error of the call: the errorResponse, or io.EOF for a body that is empty.
DecodedError(res) ==
    IF res.Error = NoErrorBody
    THEN "EOF"
    ELSE ErrorResponse \o " " \o res.Error.Code \o ": " \o res.Error.Message

\* What getToken returns for the response of its GET: the decoded error
\* response from status 400 on, the error of decoding an empty body (io.EOF),
\* and otherwise the token in the body, whatever it holds.
getTokenResult(res) ==
    IF getTokenFails(res.StatusCode)
    THEN [ret |-> NoHECToken, err |-> DecodedError(res)]
    ELSE IF res.Empty
         THEN [ret |-> NoHECToken, err |-> "EOF"]
         ELSE [ret |-> res.Data, err |-> ""]

\* A status below 400 that is not the one the server answers on success: the
\* request was answered without the server acting on it.
StatusOK == 200

\* The operator calls NewClient with the instance name and JWT it was given.
NewClientCall ==
    /\ api.call = ""
    /\ LET r == NewClient(api.splunkStack, api.jwt) IN
       api' = [api EXCEPT !.call = "NewClient", !.client = r.client, !.err = r.err]
    /\ UNCHANGED <<now, splunkConfig, cd, token, secret, syncset, remote, nextUid,
                   nextValue, st, cdr>>

\* Client.CreateToken of the caller's token on the client NewClient returned,
\* first round trip: the POST of the normalized spec. From status 400 on, 409
\* excepted, the call returns the decoded error; otherwise it goes on to
\* getToken.
ClientCreateToken ==
    /\ api.call # ""
    /\ api.pc = ""
    /\ api.client # NoClient
    /\ \E status \in {StatusAccepted, StatusConflict, StatusOK} \cup RefusalStatuses :
          LET c == api.client
              tok == api.token
              payload == CreateTokenPayload(tok.Spec)
              post == Request("POST", c.url, c.jwt, "application/json",
                              <<MarshalSpec(payload)>>)
              failed == CreateTokenFails(status)
              created == [Spec |-> MarshalSpec(payload),
                          Value |-> TokenValues[nextValue + 1],
                          createdFor |-> 0]
              postRes == Response(status, NoHECToken)
          IN
          /\ status = StatusAccepted => ~RemoteHas(payload.Name) /\ nextValue < MaxValues
          /\ status = StatusConflict => RemoteHas(payload.Name)
          /\ remote' = IF status = StatusAccepted THEN remote \cup {created} ELSE remote
          /\ nextValue' = IF status = StatusAccepted THEN nextValue + 1 ELSE nextValue
          /\ api' = [api EXCEPT !.call = "CreateToken",
                                !.pc = IF failed THEN "" ELSE "getToken",
                                !.requests = <<post>>,
                                !.responses = <<postRes>>,
                                !.err = IF failed THEN DecodedError(postRes) ELSE "",
                                !.ret = NoHECToken]
    /\ UNCHANGED <<now, splunkConfig, cd, token, secret, syncset, nextUid, st, cdr>>

\* Client.CreateToken, second round trip: c.getToken sends the GET of the named
\* token and the call returns what it gives. The server answers from the
\* tokens it holds when the GET arrives.
ClientGetToken ==
    /\ api.pc = "getToken"
    /\ \E getStatus \in {StatusOK, StatusAccepted, StatusNotFound} \cup RefusalStatuses :
       \E body \in GetBodies :
          LET c == api.client
              name == api.requests[1].Body[1].Name
              get == Request("GET", JoinPath(c.url, <<name>>), c.jwt,
                             "application/json", <<>>)
              getRes == IF getStatus >= 400
                        THEN Response(getStatus, NoHECToken)
                        ELSE IF body = "token"
                             THEN Response(getStatus,
                                           HECToken(RemoteToken(name).Spec,
                                                    RemoteToken(name).Value))
                             ELSE IF body = "name"
                                  THEN Response(getStatus, NameOnly(name))
                                  ELSE EmptyResponse(getStatus)
              result == getTokenResult(getRes)
          IN
          /\ getStatus >= 400 => body = "token"
          /\ getStatus = StatusNotFound => ~RemoteHas(name)
          /\ (getStatus < 400 /\ body = "token") => RemoteHas(name)
          /\ api' = [api EXCEPT !.pc = "",
                                !.requests = Append(@, get),
                                !.responses = Append(@, getRes),
                                !.err = result.err,
                                !.ret = result.ret]
    /\ UNCHANGED <<now, splunkConfig, cd, token, secret, syncset, remote, nextUid,
                   nextValue, st, cdr>>

\* Between the two round trips of a CreateToken call the token is deleted on
\* the server by another caller.
ServerTokenDeleted ==
    /\ api.pc = "getToken"
    /\ RemoteHas(api.requests[1].Body[1].Name)
    /\ remote' = { r \in remote : r.Spec.Name # api.requests[1].Body[1].Name }
    /\ UNCHANGED <<now, splunkConfig, cd, token, secret, syncset, nextUid, nextValue,
                   st, cdr, api>>

\* Client.DeleteToken of the caller's token on the client NewClient returned.
ClientDeleteToken ==
    /\ api.call # ""
    /\ api.pc = ""
    /\ api.client # NoClient
    /\ \E status \in {StatusAccepted, StatusNotFound, StatusOK} \cup RefusalStatuses :
          LET c == api.client
              name == api.token.Spec.Name
              del == Request("DELETE", JoinPath(c.url, <<name>>), c.jwt, "", <<>>)
              delRes == Response(status, NoHECToken)
          IN
          /\ status = StatusAccepted => RemoteHas(name)
          /\ status = StatusNotFound => ~RemoteHas(name)
          /\ remote' = IF status = StatusAccepted
                       THEN { r \in remote : r.Spec.Name # name }
                       ELSE remote
          /\ api' = [api EXCEPT
                       !.call = "DeleteToken",
                       !.requests = <<del>>,
                       !.responses = <<delRes>>,
                       !.err = IF DeleteTokenFails(status) THEN DecodedError(delRes) ELSE "",
                       !.ret = NoHECToken]
    /\ UNCHANGED <<now, splunkConfig, cd, token, secret, syncset, nextUid, nextValue,
                   st, cdr>>

(* ----------------------- SplunkTokenReconciler ------------------------- *)

\* Mutant: a token is stale already at its deadline.
IsStale_AtDeadline(currentTime, creationTimestamp, tokenMaxAge) ==
    currentTime >= creationTimestamp + tokenMaxAge

\* currentTime.After(CreationTimestamp.Add(TokenMaxAge))
IsStale(currentTime, creationTimestamp, tokenMaxAge) ==
    currentTime > creationTimestamp + tokenMaxAge

\* Mutant: a stale token is torn down on the Splunk server at once.
ReconcileBranch_OnePhase(found, tokenObject, currentTime, tokenMaxAge) ==
    IF ~found
    THEN "done"
    ELSE IF tokenObject.DeletionTimestamp
              \/ currentTime > tokenObject.CreationTimestamp + tokenMaxAge
         THEN "DeleteToken"
         ELSE "GetSecret"

\* Mutant: a missing SplunkToken is treated as one under deletion.
ReconcileBranch_NotFoundDeletes(found, tokenObject, currentTime, tokenMaxAge) ==
    IF ~found \/ tokenObject.DeletionTimestamp
    THEN "DeleteToken"
    ELSE IF currentTime > tokenObject.CreationTimestamp + tokenMaxAge
         THEN "DeleteObject"
         ELSE "GetSecret"

\* Mutant: the age of the SplunkToken is looked at before its deletion timestamp.
ReconcileBranch_AgeFirst(found, tokenObject, currentTime, tokenMaxAge) ==
    IF ~found
    THEN "done"
    ELSE IF IsStale(currentTime, tokenObject.CreationTimestamp, tokenMaxAge)
         THEN "DeleteObject"
         ELSE IF tokenObject.DeletionTimestamp THEN "DeleteToken" ELSE "GetSecret"

\* Where Reconcile goes once r.Get of the SplunkToken has returned without an
\* error other than NotFound.
ReconcileBranch(found, tokenObject, currentTime, tokenMaxAge) ==
    IF ~found
    THEN "done"
    ELSE IF tokenObject.DeletionTimestamp
         THEN "DeleteToken"
         ELSE IF IsStale(currentTime, tokenObject.CreationTimestamp, tokenMaxAge)
              THEN "DeleteObject"
              ELSE "GetSecret"

\* Mutant: a failed DeleteToken is tried again within the pass.
AfterDeleteToken_Retry(failed) == IF failed THEN "DeleteToken" ELSE "RemoveFinalizer"

\* Mutant: the error of DeleteToken is dropped.
AfterDeleteToken_IgnoreError(failed) == "RemoveFinalizer"

\* Mutant: the pass returns after DeleteToken and leaves the finalizer.
AfterDeleteToken_NoRemoval(failed) == "done"

\* Where Reconcile goes once DeleteToken has returned.
AfterDeleteToken(failed) == IF failed THEN "done" ELSE "RemoveFinalizer"

\* Mutant: the finalizer is left on the object.
RemoveFinalizer_Kept(obj, finalizer) == obj

\* controllerutil.RemoveFinalizer
RemoveFinalizer(obj, finalizer) ==
    [obj EXCEPT !.Finalizers = @ \ {finalizer}]

\* Mutant: the finalizer is not put on the object that is written.
AddFinalizer_Noop(obj, finalizer) == obj

\* Mutant: the object written with the finalizer carries the spec CreateToken
\* would send.
AddFinalizer_Normalized(obj, finalizer) ==
    [obj EXCEPT !.Finalizers = @ \cup {finalizer}, !.Spec = CreateTokenPayload(@)]

\* controllerutil.AddFinalizer: the object, and whether it was changed.
AddFinalizer(obj, finalizer) ==
    [obj EXCEPT !.Finalizers = @ \cup {finalizer}]

AddFinalizerChanged(obj, finalizer) == finalizer \notin obj.Finalizers

\* Mutant: CreateToken is called without the finalizer being written first.
AfterGetSecret_NoFinalizer(found, tokenObject) ==
    IF found THEN "done" ELSE "CreateToken"

\* Mutant: a token is requested although the Secret exists.
AfterGetSecret_IgnoreFound(found, tokenObject) ==
    IF TokenFinalizer \notin tokenObject.Finalizers
    THEN "AddFinalizer"
    ELSE "CreateToken"

\* Where Reconcile goes once r.Get of the Secret has returned without an error
\* other than NotFound.
AfterGetSecret(found, tokenObject) ==
    IF found
    THEN "done"
    ELSE IF AddFinalizerChanged(tokenObject, TokenFinalizer)
         THEN "AddFinalizer"
         ELSE "CreateToken"

\* The HECToken Reconcile passes to CreateToken.
tokenOptions(tokenObject) == HECToken(tokenObject.Spec, "")

\* r.collectorUri
collectorUri(splunkInstance) ==
    "https://http-inputs-" \o splunkInstance \o ".splunkcloud.com:443"

\* Mutant: the outputs.conf is written without the uri line.
outputsConf_TokenOnly(tokenValue, uri) ==
    "[httpout]\nhttpEventCollectorToken = " \o tokenValue

\* The outputs.conf that newSecretObject formats.
outputsConf(tokenValue, uri) ==
    "[httpout]\nhttpEventCollectorToken = " \o tokenValue \o "\nuri = " \o uri

\* Mutant: the Secret is left mutable.
newSecretObject_Mutable(namespace, tokenValue, splunkInstance, ownerUid) ==
    [exists |-> TRUE,
     Name |-> OwnedObjectName,
     Namespace |-> namespace,
     Data |-> [k \in {SecretDataKey} |-> outputsConf(tokenValue, collectorUri(splunkInstance))],
     Immutable |-> FALSE,
     owner |-> ownerUid]

\* r.newSecretObject, followed by controllerutil.SetControllerReference.
newSecretObject(namespace, tokenValue, splunkInstance, ownerUid) ==
    [exists |-> TRUE,
     Name |-> OwnedObjectName,
     Namespace |-> namespace,
     Data |-> [k \in {SecretDataKey} |-> outputsConf(tokenValue, collectorUri(splunkInstance))],
     Immutable |-> TRUE,
     owner |-> ownerUid]

\* A worker that runs no pass.
IdlePass ==
    [pc |-> "idle", res |-> "", branch |-> "", tokenObject |-> NoToken,
     currentTime |-> 0, tokenOptions |-> NoHECToken, payload |-> ZeroSpec,
     hecToken |-> NoHECToken, StatusCode |-> 0, log |-> <<>>]

\* The pass with one more store write or remote call on its record.
Logged(p, op, arg, ok) ==
    [p EXCEPT !.log = Append(@, [op |-> op, arg |-> arg, ok |-> ok])]

\* The pass has returned: res is "ok" (nil error), "err" or "crash". Its locals
\* are gone; what stays is the record of what it did and the status the server
\* gave to its POST.
Finish(p, res) ==
    [IdlePass EXCEPT !.pc = "done", !.res = res, !.branch = p.branch,
                     !.StatusCode = p.StatusCode, !.log = p.log]

\* The pass goes on to pc, or returns nil when pc is "done".
Goto(p, pc) == IF pc = "done" THEN Finish(p, "ok") ELSE [p EXCEPT !.pc = pc]

Running(w) == st[w].pc \notin {"idle", "done"}

\* Reconcile starts: r.Get of the SplunkToken, then the branch on what was read.
StGetToken(w) ==
    /\ ~Running(w)
    /\ \/ st' = [st EXCEPT ![w] = Finish(IdlePass, "err")]
       \/ LET branch == ReconcileBranch(token.exists, token, now,
                                         splunkConfig.TokenMaxAge)
          IN st' = [st EXCEPT ![w] =
                       Goto([IdlePass EXCEPT !.tokenObject = token, !.currentTime = now,
                                             !.branch = branch],
                            branch)]
    /\ UNCHANGED <<now, splunkConfig, api, syncset, cd, token, secret, remote, nextUid, nextValue, cdr>>

\* r.SplunkApi.DeleteToken(tokenObject.Spec.Name): one DELETE request.
StDeleteToken(w) ==
    /\ st[w].pc = "DeleteToken"
    /\ LET name == st[w].tokenObject.Spec.Name IN
       \E status \in {StatusAccepted, StatusNotFound} \cup RefusalStatuses :
          /\ status = StatusAccepted => RemoteHas(name)
          /\ status = StatusNotFound => ~RemoteHas(name)
          /\ remote' = IF status = StatusAccepted
                       THEN { c \in remote : c.Spec.Name # name }
                       ELSE remote
          /\ LET failed == DeleteTokenFails(status)
                 p == Logged(st[w], "DeleteToken", name, ~failed)
             IN st' = [st EXCEPT ![w] =
                          IF AfterDeleteToken(failed) = "done"
                          THEN Finish(p, IF failed THEN "err" ELSE "ok")
                          ELSE Goto(p, AfterDeleteToken(failed))]
    /\ UNCHANGED <<now, splunkConfig, api, syncset, cd, token, secret, nextUid, nextValue, cdr>>

\* controllerutil.RemoveFinalizer, then r.Update of the SplunkToken.
StRemoveFinalizer(w) ==
    /\ st[w].pc = "RemoveFinalizer"
    /\ LET obj == RemoveFinalizer(st[w].tokenObject, TokenFinalizer) IN
       \/ /\ UpdateAccepted(obj)
          /\ token' = StoreUpdate(obj)
          /\ st' = [st EXCEPT ![w] =
                       Finish(Logged(st[w], "Update", "RemoveFinalizer", TRUE), "ok")]
       \/ /\ UNCHANGED token
          /\ st' = [st EXCEPT ![w] =
                       Finish(Logged(st[w], "Update", "RemoveFinalizer", FALSE), "err")]
    /\ UNCHANGED <<now, splunkConfig, api, syncset, cd, secret, remote, nextUid, nextValue, cdr>>

\* The SplunkToken is stale: r.Delete of the SplunkToken object.
StDeleteObject(w) ==
    /\ st[w].pc = "DeleteObject"
    /\ \/ /\ token.exists
          /\ token' = StoreDelete(token)
          /\ st' = [st EXCEPT ![w] =
                       Finish(Logged(st[w], "Delete", "SplunkToken", TRUE), "ok")]
       \/ /\ UNCHANGED token
          /\ st' = [st EXCEPT ![w] =
                       Finish(Logged(st[w], "Delete", "SplunkToken", FALSE), "err")]
    /\ UNCHANGED <<now, splunkConfig, api, syncset, cd, secret, remote, nextUid, nextValue, cdr>>

\* r.Get of the Secret, then the branch on whether it was found.
StGetSecret(w) ==
    /\ st[w].pc = "GetSecret"
    /\ \/ st' = [st EXCEPT ![w] = Finish(st[w], "err")]
       \/ st' = [st EXCEPT ![w] =
                    Goto(st[w], AfterGetSecret(secret.exists, st[w].tokenObject))]
    /\ UNCHANGED <<now, splunkConfig, api, syncset, cd, token, secret, remote, nextUid, nextValue, cdr>>

\* controllerutil.AddFinalizer changed the object: r.Update of the SplunkToken.
StAddFinalizer(w) ==
    /\ st[w].pc = "AddFinalizer"
    /\ LET obj == AddFinalizer(st[w].tokenObject, TokenFinalizer) IN
       \/ /\ UpdateAccepted(obj)
          /\ token' = StoreUpdate(obj)
          /\ st' = [st EXCEPT ![w] =
                       Goto([Logged(st[w], "Update", "AddFinalizer", TRUE)
                                EXCEPT !.tokenObject = StoreUpdate(obj)],
                            "CreateToken")]
       \/ /\ UNCHANGED token
          /\ st' = [st EXCEPT ![w] =
                       Finish(Logged(st[w], "Update", "AddFinalizer", FALSE), "err")]
    /\ UNCHANGED <<now, splunkConfig, api, syncset, cd, secret, remote, nextUid, nextValue, cdr>>

\* r.SplunkApi.CreateToken, first half: the POST of the spec and its status.
StCreateToken(w) ==
    /\ st[w].pc = "CreateToken"
    /\ LET token0 == tokenOptions(st[w].tokenObject)
           payload == CreateTokenPayload(token0.Spec)
       IN
       \E status \in {StatusAccepted, StatusConflict} \cup RefusalStatuses :
          /\ status = StatusAccepted => ~RemoteHas(payload.Name) /\ nextValue < MaxValues
          /\ status = StatusConflict => RemoteHas(payload.Name)
          /\ IF status = StatusAccepted
             THEN /\ remote' = remote \cup
                        { [Spec |-> MarshalSpec(payload),
                           Value |-> TokenValues[nextValue + 1],
                           createdFor |-> st[w].tokenObject.uid] }
                  /\ nextValue' = nextValue + 1
             ELSE UNCHANGED <<remote, nextValue>>
          /\ LET failed == CreateTokenFails(status)
                 p == [Logged(st[w], "CreateToken", payload.Name, ~failed)
                          EXCEPT !.tokenOptions = token0, !.payload = payload,
                                 !.StatusCode = status]
             IN st' = [st EXCEPT ![w] =
                          IF failed THEN Finish(p, "err") ELSE Goto(p, "getToken")]
    /\ UNCHANGED <<now, splunkConfig, api, syncset, cd, token, secret, nextUid, cdr>>

\* r.SplunkApi.CreateToken, second half: c.getToken reads the token back.
StGetHEC(w) ==
    /\ st[w].pc = "getToken"
    /\ LET name == st[w].payload.Name IN
       \E status \in {200, StatusNotFound} \cup RefusalStatuses :
          /\ status = 200 => RemoteHas(name)
          /\ status = StatusNotFound => ~RemoteHas(name)
          /\ LET failed == getTokenFails(status)
                 body == IF status = 200
                         THEN HECToken(RemoteToken(name).Spec, RemoteToken(name).Value)
                         ELSE NoHECToken
                 p == [Logged(st[w], "getToken", name, ~failed) EXCEPT !.hecToken = body]
             IN st' = [st EXCEPT ![w] =
                          IF failed THEN Finish(p, "err") ELSE Goto(p, "CreateSecret")]
    /\ UNCHANGED <<now, splunkConfig, api, syncset, cd, token, secret, remote, nextUid, nextValue, cdr>>

\* c.getToken when the server answers the read with the token's spec and no
\* token value, as the server of the client tests does: the status is below
\* 400, the body decodes, and the HECToken returned has the empty Value.
StGetHECNoValue(w) ==
    /\ st[w].pc = "getToken"
    /\ LET name == st[w].payload.Name IN
       /\ RemoteHas(name)
       /\ LET failed == getTokenFails(StatusOK)
              body == HECToken(RemoteToken(name).Spec, "")
              p == [Logged(st[w], "getToken", name, ~failed) EXCEPT !.hecToken = body]
          IN st' = [st EXCEPT ![w] =
                       IF failed THEN Finish(p, "err") ELSE Goto(p, "CreateSecret")]
    /\ UNCHANGED <<now, splunkConfig, api, syncset, cd, token, secret, remote, nextUid, nextValue, cdr>>

\* r.newSecretObject, SetControllerReference, then r.Create of the Secret.
StCreateSecret(w) ==
    /\ st[w].pc = "CreateSecret"
    /\ \/ /\ ~secret.exists
          /\ secret' = newSecretObject(Namespace, st[w].hecToken.Value,
                                       splunkConfig.SplunkInstance,
                                       st[w].tokenObject.uid)
          /\ st' = [st EXCEPT ![w] =
                       Finish(Logged(st[w], "Create", "Secret", TRUE), "ok")]
       \/ /\ UNCHANGED secret
          /\ st' = [st EXCEPT ![w] =
                       Finish(Logged(st[w], "Create", "Secret", FALSE), "err")]
    /\ UNCHANGED <<now, splunkConfig, api, syncset, cd, token, remote, nextUid, nextValue, cdr>>

\* The operator process dies in the middle of a pass.
StCrash(w) ==
    /\ Running(w)
    /\ st' = [st EXCEPT ![w] = Finish(st[w], "crash")]
    /\ UNCHANGED <<now, splunkConfig, api, syncset, cd, token, secret, remote, nextUid, nextValue, cdr>>

(* -------------------- ClusterDeploymentReconciler ---------------------- *)

\* clusterdeployment.Labels[key]: the empty string when the label is missing.
LabelValue(labels, key) == IF key \in DOMAIN labels THEN labels[key] ELSE ""

\* Mutant: every ClusterDeployment with a cluster-type label is a management
\* cluster.
SelectIndexes_AnyType(labels, config) ==
    IF ClusterTypeLabel \in DOMAIN labels
    THEN config.HCP
    ELSE config.Classic

\* The index configuration Reconcile selects for the ClusterDeployment's labels.
SelectIndexes(labels, config) ==
    IF LabelValue(labels, ClusterTypeLabel) = "management-cluster"
    THEN config.HCP
    ELSE config.Classic

\* "don't update the SplunkToken object if the indexes are the same": the
\* default indexes are the same string and reflect.DeepEqual holds of the
\* allowed indexes, which are both nil, or both not nil and the same entry by
\* entry.
SpecUnchanged(defaultIndex, allowedIndexes, spec) ==
    /\ defaultIndex = spec.DefaultIndex
    /\ allowedIndexes.isNil = spec.AllowedIndexes.isNil
    /\ allowedIndexes.elems = spec.AllowedIndexes.elems

\* The ClusterDeployment reconciler when it runs no pass.
IdleCdPass ==
    [pc |-> "idle", res |-> "", tokenName |-> "", defaultIndex |-> "",
     allowedIndexes |-> NilSlice, splunktoken |-> NoToken, tokenExists |-> FALSE,
     log |-> <<>>, err |-> ""]

\* The pass has returned; what stays is the record of what it did.
CdFinish(p, res) == [IdleCdPass EXCEPT !.pc = "done", !.res = res, !.log = p.log]

\* The errors Reconcile returns: the one it makes itself for a missing
\* identity label, the NotFound of the store, and any other error of the store.
LabelMissingError == "label " \o ClusterIDLabel \o " not found on ClusterDeployment"
NotFoundError == "not found"
StoreError == "store error"

\* The pass has returned the error err.
CdFail(p, err) == [CdFinish(p, "err") EXCEPT !.err = err]

\* Mutant: a ClusterDeployment without the identity label is given the token
\* name "" and the pass goes on.
AfterGetClusterDeployment_NoLabelCheck(labels, config) ==
    [IdleCdPass EXCEPT
       !.pc = "GetToken",
       !.tokenName = LabelValue(labels, ClusterIDLabel),
       !.defaultIndex = SelectIndexes(labels, config).DefaultIndex,
       !.allowedIndexes = SelectIndexes(labels, config).AllowedIndexes]

\* Reconcile after r.Get found the ClusterDeployment: the identity label is
\* looked up and the index configuration for the cluster type is selected.
AfterGetClusterDeployment(labels, config) ==
    IF ClusterIDLabel \notin DOMAIN labels
    THEN CdFail(IdleCdPass, LabelMissingError)
    ELSE [IdleCdPass EXCEPT
            !.pc = "GetToken",
            !.tokenName = labels[ClusterIDLabel],
            !.defaultIndex = SelectIndexes(labels, config).DefaultIndex,
            !.allowedIndexes = SelectIndexes(labels, config).AllowedIndexes]

CdRunning == cdr.pc \notin {"idle", "done"}

\* Mutant: a ClusterDeployment that is not found ends the pass with nil.
OnClusterDeploymentNotFound_Nil == CdFinish(IdleCdPass, "ok")

\* Reconcile when r.Get does not find the ClusterDeployment: the NotFound
\* error is returned like every other error of r.Get.
OnClusterDeploymentNotFound == CdFail(IdleCdPass, NotFoundError)

\* Reconcile starts: r.Get of the ClusterDeployment, the identity label and the
\* index configuration for the cluster type.
CdGet ==
    /\ ~CdRunning
    /\ \/ cdr' = CdFail(IdleCdPass, StoreError)
       \/ cdr' = IF cd.exists
                 THEN AfterGetClusterDeployment(cd.Labels, splunkConfig)
                 ELSE OnClusterDeploymentNotFound
    /\ UNCHANGED <<now, splunkConfig, api, syncset, cd, token, secret, remote, nextUid, nextValue, st>>

\* Mutant: the object written keeps nothing of what was read but its identity
\* and version, so the finalizers are dropped.
WithDesiredSpec_NoFinalizers(splunktoken, tokenName, defaultIndex, allowedIndexes) ==
    [splunktoken EXCEPT
       !.Spec = SplunkTokenSpec(tokenName, defaultIndex, allowedIndexes),
       !.owner = ClusterName,
       !.Finalizers = {}]

\* The SplunkToken a pass is about to write: the spec is overwritten and the
\* ClusterDeployment set as owner.
WithDesiredSpec(splunktoken, tokenName, defaultIndex, allowedIndexes) ==
    [splunktoken EXCEPT
       !.Spec = SplunkTokenSpec(tokenName, defaultIndex, allowedIndexes),
       !.owner = ClusterName]

\* r.Get of the SplunkToken "cluster", the comparison of the indexes, and the
\* new spec and owner reference when they differ.
CdGetToken ==
    /\ cdr.pc = "GetToken"
    /\ \/ cdr' = CdFail(cdr, StoreError)
       \/ cdr' = IF SpecUnchanged(cdr.defaultIndex, cdr.allowedIndexes, token.Spec)
                 THEN CdFinish([cdr EXCEPT !.splunktoken = token,
                                         !.tokenExists = token.exists], "ok")
                 ELSE [cdr EXCEPT
                         !.pc = "Write",
                         !.tokenExists = token.exists,
                         !.splunktoken =
                             WithDesiredSpec(token, cdr.tokenName, cdr.defaultIndex,
                                             cdr.allowedIndexes)]
    /\ UNCHANGED <<now, splunkConfig, api, syncset, cd, token, secret, remote, nextUid, nextValue, st>>

\* r.Update of the SplunkToken when it was found.
CdUpdate ==
    /\ cdr.pc = "Write"
    /\ cdr.tokenExists
    /\ \/ /\ UpdateAccepted(cdr.splunktoken)
          /\ token.resourceVersion < MaxVersion
          /\ token' = StoreUpdate(cdr.splunktoken)
          /\ cdr' = CdFinish(Logged(cdr, "Update", "SplunkToken", TRUE), "ok")
       \/ /\ UNCHANGED token
          /\ cdr' = CdFail(Logged(cdr, "Update", "SplunkToken", FALSE), StoreError)
    /\ UNCHANGED <<now, splunkConfig, api, syncset, cd, secret, remote, nextUid, nextValue, st>>

\* r.Create of the SplunkToken when it was not found.
CdCreate ==
    /\ cdr.pc = "Write"
    /\ ~cdr.tokenExists
    /\ \/ /\ ~token.exists
          /\ nextUid < MaxTokens
          /\ token' = [cdr.splunktoken EXCEPT
                          !.exists = TRUE, !.uid = nextUid + 1, !.resourceVersion = 1,
                          !.CreationTimestamp = now, !.Spec = MarshalSpec(@)]
          /\ nextUid' = nextUid + 1
          /\ cdr' = CdFinish(Logged(cdr, "Create", "SplunkToken", TRUE), "ok")
       \/ /\ UNCHANGED <<token, nextUid>>
          /\ cdr' = CdFail(Logged(cdr, "Create", "SplunkToken", FALSE), StoreError)
    /\ UNCHANGED <<now, splunkConfig, api, syncset, cd, secret, remote, nextValue, st>>

\* The operator process dies in the middle of a pass.
CdCrash ==
    /\ CdRunning
    /\ cdr' = CdFinish(cdr, "crash")
    /\ UNCHANGED <<now, splunkConfig, api, syncset, cd, token, secret, remote, nextUid, nextValue, st>>

(* ------- ClusterDeploymentReconciler that also creates the SyncSet ------ *)

\* Reconcile when r.Get does not find the ClusterDeployment: "clusterdeployment
\* has been deleted, ending reconciliation", with a nil error.
SyncOnClusterDeploymentNotFound == CdFinish(IdleCdPass, "ok")

\* Reconcile starts: as CdGet, but a ClusterDeployment that is not found ends
\* the pass with a nil error.
SyncCdGet ==
    /\ ~CdRunning
    /\ \/ cdr' = CdFail(IdleCdPass, StoreError)
       \/ cdr' = IF cd.exists
                 THEN AfterGetClusterDeployment(cd.Labels, splunkConfig)
                 ELSE SyncOnClusterDeploymentNotFound
    /\ UNCHANGED <<now, splunkConfig, api, syncset, cd, token, secret, remote, nextUid, nextValue, st>>

\* r.Update of the SplunkToken when it was found; Reconcile goes on to the
\* SyncSet.
SyncCdUpdate ==
    /\ cdr.pc = "Write"
    /\ cdr.tokenExists
    /\ \/ /\ UpdateAccepted(cdr.splunktoken)
          /\ token' = StoreUpdate(cdr.splunktoken)
          /\ cdr' = [Logged(cdr, "Update", "SplunkToken", TRUE) EXCEPT !.pc = "GetSyncSet"]
       \/ /\ UNCHANGED token
          /\ cdr' = CdFail(Logged(cdr, "Update", "SplunkToken", FALSE), StoreError)
    /\ UNCHANGED <<now, splunkConfig, api, syncset, cd, secret, remote, nextUid, nextValue, st>>

\* r.Create of the SplunkToken when it was not found; Reconcile goes on to the
\* SyncSet.
SyncCdCreate ==
    /\ cdr.pc = "Write"
    /\ ~cdr.tokenExists
    /\ \/ /\ ~token.exists
          /\ nextUid < MaxTokens
          /\ token' = [cdr.splunktoken EXCEPT
                          !.exists = TRUE, !.uid = nextUid + 1, !.resourceVersion = 1,
                          !.CreationTimestamp = now, !.Spec = MarshalSpec(@)]
          /\ nextUid' = nextUid + 1
          /\ cdr' = [Logged(cdr, "Create", "SplunkToken", TRUE) EXCEPT !.pc = "GetSyncSet"]
       \/ /\ UNCHANGED <<token, nextUid>>
          /\ cdr' = CdFail(Logged(cdr, "Create", "SplunkToken", FALSE), StoreError)
    /\ UNCHANGED <<now, splunkConfig, api, syncset, cd, secret, remote, nextValue, st>>

\* Mutant: r.Get of the SyncSet always answers NotFound.
SyncSetFound_Never(tokenSyncSet) == FALSE

\* r.Get of the SyncSet does not answer NotFound: "secret SyncSet already exists".
SyncSetFound(tokenSyncSet) == tokenSyncSet.exists

\* r.Get of the SyncSet: an error other than NotFound is returned, a SyncSet
\* that is found ends the pass.
SyncGetSyncSet ==
    /\ cdr.pc = "GetSyncSet"
    /\ \/ cdr' = CdFail(cdr, StoreError)
       \/ cdr' = IF SyncSetFound(syncset)
                 THEN CdFinish(cdr, "ok")
                 ELSE [cdr EXCEPT !.pc = "CreateSyncSet"]
    /\ UNCHANGED <<now, splunkConfig, api, syncset, cd, token, secret, remote, nextUid, nextValue, st>>

\* r.createSyncSet and controllerutil.SetControllerReference
createSyncSet(clusterName) ==
    [exists |-> TRUE, ClusterDeploymentRefs |-> <<clusterName>>, owner |-> clusterName]

\* What Reconcile returns after r.Create of the SyncSet: its error is logged
\* and the pass ends with a nil error.
AfterCreateSyncSet(failed) == "ok"

\* r.Create of the SyncSet.
SyncCreateSyncSet ==
    /\ cdr.pc = "CreateSyncSet"
    /\ \/ /\ ~syncset.exists
          /\ syncset' = createSyncSet(ClusterName)
          /\ cdr' = CdFinish(Logged(cdr, "Create", "SyncSet", TRUE),
                             AfterCreateSyncSet(FALSE))
       \/ /\ UNCHANGED syncset
          /\ cdr' = CdFinish(Logged(cdr, "Create", "SyncSet", FALSE),
                             AfterCreateSyncSet(TRUE))
    /\ UNCHANGED <<now, splunkConfig, api, cd, token, secret, remote, nextUid, nextValue, st>>

(* --------------------------- the environment --------------------------- *)

\* Time passes.
Tick ==
    /\ now < MaxTime
    /\ now' = now + 1
    /\ UNCHANGED <<splunkConfig, api, syncset, cd, token, secret, remote, nextUid, nextValue, st, cdr>>

\* A user deletes the SplunkToken object to rotate the token by hand.
UserDeleteToken ==
    /\ token.exists
    /\ ~token.DeletionTimestamp
    /\ token' = StoreDelete(token)
    /\ UNCHANGED <<now, splunkConfig, api, syncset, cd, secret, remote, nextUid, nextValue, st, cdr>>

\* The ClusterDeployment is labelled as a management cluster after it was created.
LabelManagementCluster ==
    /\ cd.exists
    /\ ClusterTypeLabel \notin DOMAIN cd.Labels
    /\ cd' = [cd EXCEPT !.Labels =
                 [l \in DOMAIN cd.Labels \cup {ClusterTypeLabel} |->
                     IF l = ClusterTypeLabel THEN "management-cluster" ELSE cd.Labels[l]]]
    /\ UNCHANGED <<now, splunkConfig, api, syncset, token, secret, remote, nextUid, nextValue, st, cdr>>

\* The ClusterDeployment is deleted.
DeleteClusterDeployment ==
    /\ cd.exists
    /\ cd' = [cd EXCEPT !.exists = FALSE]
    /\ UNCHANGED <<now, splunkConfig, api, syncset, token, secret, remote, nextUid, nextValue, st, cdr>>

\* The garbage collector removes the Secret whose owning SplunkToken is gone.
GCSecret ==
    /\ SecretOrphaned
    /\ secret' = NoSecret
    /\ UNCHANGED <<now, splunkConfig, api, syncset, cd, token, remote, nextUid, nextValue, st, cdr>>

(* --------------------------- specifications ---------------------------- *)

Init ==
    /\ now = 0
    /\ splunkConfig \in [TokenMaxAge : MaxAges, SplunkInstance : {"mock_splunk"},
                         Classic : IndexConfigs, HCP : {HCPConfig}]
    /\ cd \in { [exists |-> TRUE, Labels |-> l] : l \in LabelSets }
    /\ token = NoToken
    /\ secret = NoSecret
    /\ syncset = NoSyncSet
    /\ api = NoApi
    /\ remote = {}
    /\ nextUid = 0
    /\ nextValue = 0
    /\ st = [w \in Workers |-> IdlePass]
    /\ cdr = IdleCdPass

\* One step of a SplunkTokenReconciler pass that has started.
StStep(w) ==
    \/ StDeleteToken(w)
    \/ StRemoveFinalizer(w)
    \/ StDeleteObject(w)
    \/ StGetSecret(w)
    \/ StAddFinalizer(w)
    \/ StCreateToken(w)
    \/ StGetHEC(w)
    \/ StCreateSecret(w)
    \/ StCrash(w)

\* One step of the ClusterDeploymentReconciler.
CdStep == CdGet \/ CdGetToken \/ CdUpdate \/ CdCreate \/ CdCrash

\* One step of the store, the clock or a user.
EnvStep == Tick \/ UserDeleteToken \/ LabelManagementCluster \/ GCSecret

\* Passes of the SplunkTokenReconciler run one at a time, as the work queue of
\* a controller hands a key to one worker at a time.
Next ==
    \/ StGetToken("w1") \/ StStep("w1")
    \/ CdStep
    \/ EnvStep

Spec == Init /\ [][Next]_vars

\* Passes of the SplunkTokenReconciler may overlap.
OverlapNext ==
    \/ \E w \in Workers : StGetToken(w) \/ StStep(w)
    \/ CdStep
    \/ EnvStep

OverlapSpec == Init /\ [][OverlapNext]_vars

\* The liveness runs start when the ClusterDeploymentReconciler has created
\* the SplunkToken of the cluster from the classic indexes of the tests.
LiveInit ==
    /\ now = 0
    /\ splunkConfig \in [TokenMaxAge : MaxAges, SplunkInstance : {"mock_splunk"},
                         Classic : {[DefaultIndex |-> "classic_index",
                                     AllowedIndexes |-> Slice(<<"another_classic_index">>)]},
                         HCP : {HCPConfig}]
    /\ cd = [exists |-> TRUE, Labels |-> [l \in {ClusterIDLabel} |-> ClusterID]]
    /\ token = [NoToken EXCEPT
                  !.exists = TRUE, !.uid = 1, !.resourceVersion = 1,
                  !.Spec = SplunkTokenSpec(ClusterID, "classic_index",
                                           Slice(<<"another_classic_index">>)),
                  !.owner = ClusterName, !.CreationTimestamp = 0]
    /\ secret = NoSecret
    /\ syncset = NoSyncSet
    /\ api = NoApi
    /\ remote = {}
    /\ nextUid = 1
    /\ nextValue = 0
    /\ st = [w \in Workers |-> IdlePass]
    /\ cdr = IdleCdPass

\* Worker w1 takes the step A and the call in it succeeds.
Succeeds(w) == st'[w].res \notin {"err", "crash"}

\* The platform invokes Reconcile again and again, a store operation or remote
\* call that is tried again and again eventually succeeds, and the garbage
\* collector eventually removes an orphaned Secret.
LiveFairness ==
    /\ SF_vars(StGetToken("w1") /\ Succeeds("w1"))
    /\ SF_vars(StDeleteToken("w1") /\ Succeeds("w1"))
    /\ SF_vars(StRemoveFinalizer("w1") /\ Succeeds("w1"))
    /\ SF_vars(StDeleteObject("w1") /\ Succeeds("w1"))
    /\ SF_vars(StGetSecret("w1") /\ Succeeds("w1"))
    /\ SF_vars(StAddFinalizer("w1") /\ Succeeds("w1"))
    /\ SF_vars(StCreateToken("w1") /\ Succeeds("w1"))
    /\ SF_vars(StGetHEC("w1") /\ Succeeds("w1"))
    /\ SF_vars(StCreateSecret("w1") /\ Succeeds("w1"))
    /\ WF_vars(GCSecret)

\* The passes of the SplunkTokenReconciler over that SplunkToken, the clock, a
\* user who deletes it and the garbage collector.
LiveNext ==
    \/ StGetToken("w1")
    \/ StStep("w1")
    \/ Tick
    \/ UserDeleteToken
    \/ GCSecret

LiveSpec == LiveInit /\ [][LiveNext]_vars /\ LiveFairness

\* Identities, token values and the clock are counted from the start of the
\* run. When no SplunkToken, Secret or HEC token is left and no pass is under
\* way, nothing refers to an earlier one, and the count starts again.
Rebase ==
    /\ ~token.exists
    /\ ~secret.exists
    /\ remote = {}
    /\ ~Running("w1")
    /\ ~CdRunning
    /\ <<nextUid, nextValue, now>> # <<0, 0, 0>>
    /\ nextUid' = 0
    /\ nextValue' = 0
    /\ now' = 0
    /\ UNCHANGED <<splunkConfig, api, syncset, cd, token, secret, remote, st, cdr>>

\* Both reconcilers on a ClusterDeployment with the classic indexes of the
\* tests: nothing is created yet.
FairInit ==
    /\ Init
    /\ splunkConfig.Classic =
          [DefaultIndex |-> "classic_index",
           AllowedIndexes |-> Slice(<<"another_classic_index">>)]
    /\ cd.Labels = [l \in {ClusterIDLabel} |-> ClusterID]

\* The labels of the ClusterDeployment stay as they are, so its reconciler
\* never finds the indexes of an existing SplunkToken changed.
FairNext ==
    \/ StGetToken("w1")
    \/ StStep("w1")
    \/ CdGet
    \/ CdGetToken
    \/ CdCreate
    \/ CdCrash
    \/ Tick
    \/ UserDeleteToken
    \/ GCSecret
    \/ Rebase

\* A step of the SplunkTokenReconciler, or of the ClusterDeploymentReconciler,
\* in which no call fails.
StSucceeds == (StGetToken("w1") \/ StStep("w1")) /\ Succeeds("w1")

CdSucceeds == (CdGet \/ CdGetToken \/ CdCreate) /\ cdr'.res \notin {"err", "crash"}

\* A step in which the operator dies, a user deletes the SplunkToken, or a call
\* to the store or the server fails that could have succeeded.
Disturbance ==
    \/ StCrash("w1")
    \/ CdCrash
    \/ UserDeleteToken
    \/ st'["w1"] # st["w1"] /\ st'["w1"].res = "err" /\ ENABLED StSucceeds
    \/ cdr' # cdr /\ cdr'.res = "err" /\ ENABLED CdSucceeds

\* Both reconcilers are invoked again and again, the garbage collector removes
\* an orphaned Secret, and from some time on the store and the server answer
\* every call they can, the operator stays up and no user deletes the
\* SplunkToken.
Fairness ==
    /\ WF_vars(StGetToken("w1") \/ StStep("w1"))
    /\ WF_vars(CdGet \/ CdGetToken \/ CdCreate)
    /\ WF_vars(GCSecret)
    /\ WF_vars(Rebase)
    /\ <>[][~Disturbance]_vars

FairSpec == FairInit /\ [][FairNext]_vars /\ Fairness

\* Passes of the SplunkTokenReconciler over the SplunkToken of LiveInit overlap:
\* the platform hands the same key to two workers.
RaceNext ==
    \/ \E w \in Workers : StGetToken(w) \/ StStep(w)
    \/ Tick
    \/ UserDeleteToken
    \/ GCSecret

RaceSpec == LiveInit /\ [][RaceNext]_vars

\* The ClusterDeploymentReconciler that also creates the SyncSet, a user who
\* deletes the SplunkToken, a change of the cluster type and the deletion of the
\* ClusterDeployment.
SyncSetNext ==
    \/ SyncCdGet
    \/ CdGetToken
    \/ SyncCdUpdate
    \/ SyncCdCreate
    \/ SyncGetSyncSet
    \/ SyncCreateSyncSet
    \/ CdCrash
    \/ UserDeleteToken
    \/ LabelManagementCluster
    \/ DeleteClusterDeployment

SyncSetSpec == Init /\ [][SyncSetNext]_vars

\* The client taken alone: the operator is started with any instance name and
\* any JWT, makes its client and manages any one token through it.
ClientInit ==
    /\ now = 0
    /\ splunkConfig \in [TokenMaxAge : {1}, SplunkInstance : {"mock_splunk"},
                         Classic : {HCPConfig}, HCP : {HCPConfig}]
    /\ cd = [exists |-> FALSE, Labels |-> [l \in {ClusterIDLabel} |-> ClusterID]]
    /\ token = NoToken
    /\ secret = NoSecret
    /\ syncset = NoSyncSet
    /\ api \in { [NoApi EXCEPT !.splunkStack = s, !.jwt = j, !.token = t] :
                    s \in SplunkStacks, j \in JWTs, t \in HECTokenInputs }
    /\ remote = {}
    /\ nextUid = 0
    /\ nextValue = 0
    /\ st = [w \in Workers |-> IdlePass]
    /\ cdr = IdleCdPass

ClientNext ==
    \/ NewClientCall
    \/ ClientCreateToken
    \/ ClientGetToken
    \/ ServerTokenDeleted
    \/ ClientDeleteToken

ClientSpec == ClientInit /\ [][ClientNext]_vars

\* The ClusterDeployment reconciler taken alone: any labels, any index
\* configuration, and in the store no SplunkToken or one written earlier, under
\* another configuration or by a user.
CdInit ==
    /\ now = 0
    /\ splunkConfig \in [TokenMaxAge : {1}, SplunkInstance : {"mock_splunk"},
                         Classic : CdIndexConfigs, HCP : {HCPConfig}]
    /\ cd \in { [exists |-> TRUE, Labels |-> l] : l \in CdLabelSets }
    /\ token \in {NoToken} \cup
                 { [NoToken EXCEPT
                      !.exists = TRUE, !.uid = 1, !.resourceVersion = 1,
                      !.Spec = SplunkTokenSpec(n, c.DefaultIndex, c.AllowedIndexes),
                      !.owner = o] :
                   n \in StoredTokenNames, c \in CdIndexConfigs \cup {HCPConfig},
                   o \in {"", ClusterName} }
    /\ secret = NoSecret
    /\ syncset = NoSyncSet
    /\ api = NoApi
    /\ remote = {}
    /\ nextUid = IF token.exists THEN 1 ELSE 0
    /\ nextValue = 0
    /\ st = [w \in Workers |-> IdlePass]
    /\ cdr = IdleCdPass

CdNext ==
    \/ CdGet
    \/ CdGetToken
    \/ CdUpdate
    \/ CdCreate
    \/ CdCrash
    \/ UserDeleteToken
    \/ DeleteClusterDeployment

CdSpec == CdInit /\ [][CdNext]_vars

\* The passes of the SplunkTokenReconciler over the SplunkToken of LiveInit with
\* a server that may answer a read with a record that has no token value yet.
\* Every other specification has a server whose reads carry the value.
NoValueNext ==
    \/ StGetToken("w1")
    \/ StStep("w1")
    \/ StGetHECNoValue("w1")
    \/ Tick
    \/ UserDeleteToken
    \/ GCSecret

NoValueSpec == LiveInit /\ [][NoValueNext]_vars

(* ------------------------------ claims --------------------------------- *)

Entry(op, arg, ok) == [op |-> op, arg |-> arg, ok |-> ok]

\* The positions of the pass's record that hold a call of op.
Calls(p, op) == { i \in 1..Len(p.log) : p.log[i].op = op }

\* Worker w takes a step that is not a crash.
Steps(w) == st'[w] # st[w] /\ st'[w].res # "crash"

StoreAndRemote == <<token, secret, remote>>

\* C1: a pass that reads a SplunkToken with a deletion timestamp calls
\* DeleteToken(Spec.Name) once and nothing else before the finalizer update; when
\* DeleteToken succeeds the next thing it does is the update without the
\* finalizer, and once that update is persisted the pass returns nil, it has
\* never called CreateToken, and the SplunkToken is gone from the store.
C1_DeletionPassInv ==
    \A w \in Workers :
        LET p == st[w] IN
        /\ p.pc = "DeleteToken" =>
              /\ p.tokenObject.DeletionTimestamp
              /\ TokenFinalizer \in p.tokenObject.Finalizers
              /\ p.log = <<>>
        /\ p.pc = "RemoveFinalizer" =>
              p.log = << Entry("DeleteToken", p.tokenObject.Spec.Name, TRUE) >>
        /\ (p.pc = "done" /\ p.branch = "DeleteToken" /\ p.res = "ok") =>
              /\ Len(p.log) = 2
              /\ p.log[1] = Entry("DeleteToken", ClusterID, TRUE)
              /\ p.log[2] = Entry("Update", "RemoveFinalizer", TRUE)
              /\ Calls(p, "CreateToken") = {}

C1_DeletionPassStep ==
    \A w \in Workers :
        (st[w].pc = "RemoveFinalizer" /\ Steps(w) /\ st'[w].res = "ok") =>
            /\ token.exists
            /\ token.uid = st[w].tokenObject.uid
            /\ ~token'.exists
            /\ UNCHANGED <<secret, remote>>

C1_DeletionPass == []C1_DeletionPassInv /\ [][C1_DeletionPassStep]_vars

C1_Witness ==
    \E w \in Workers :
        /\ st[w].pc = "done" /\ st[w].branch = "DeleteToken" /\ st[w].res = "ok"
        /\ ~token.exists
        /\ nextValue > 0 /\ remote = {}

\* C2: a pass that reads a SplunkToken without a deletion timestamp takes the
\* rotation branch exactly when the time it reads is after CreationTimestamp +
\* TokenMaxAge; r.Delete of the SplunkToken is called in that branch only, and
\* a pass in that branch does nothing but that one r.Delete: no remote call, no
\* finalizer update, no Secret.
C2_RotationByAge ==
    \A w \in Workers :
        LET p == st[w] IN
        /\ (Running(w) /\ ~p.tokenObject.DeletionTimestamp) =>
              (p.branch = "DeleteObject"
                  <=> p.currentTime >
                        p.tokenObject.CreationTimestamp + splunkConfig.TokenMaxAge)
        /\ p.branch = "DeleteObject" =>
              /\ Len(p.log) <= 1
              /\ \A i \in 1..Len(p.log) :
                    p.log[i].op = "Delete" /\ p.log[i].arg = "SplunkToken"
        /\ p.branch # "DeleteObject" => Calls(p, "Delete") = {}
        /\ p.pc = "DeleteObject" => p.branch = "DeleteObject" /\ p.log = <<>>

C2_Witness ==
    \E w \in Workers :
        /\ st[w].pc = "done" /\ st[w].branch = "DeleteObject" /\ st[w].res = "ok"
        /\ st[w].log = << Entry("Delete", "SplunkToken", TRUE) >>
        /\ token.exists /\ token.DeletionTimestamp
        /\ remote # {}

\* C3: DeleteToken is only called by a pass that read the SplunkToken with its
\* deletion timestamp set, and the store's copy of that object, if it is still
\* there, carries the deletion timestamp when the call is made; no pass calls
\* both r.Delete of the SplunkToken and DeleteToken.
C3_TwoPhaseTeardown ==
    \A w \in Workers :
        LET p == st[w] IN
        /\ p.pc = "DeleteToken" =>
              /\ p.tokenObject.exists
              /\ p.tokenObject.DeletionTimestamp
              /\ (token.exists /\ token.uid = p.tokenObject.uid) =>
                    token.DeletionTimestamp
        /\ Calls(p, "DeleteToken") # {} =>
              /\ p.branch = "DeleteToken"
              /\ Calls(p, "Delete") = {}
        /\ Calls(p, "Delete") # {} => Calls(p, "DeleteToken") = {}

C3_Witness ==
    \E w \in Workers :
        /\ st[w].pc = "RemoveFinalizer"
        /\ st[w].log = << Entry("DeleteToken", ClusterID, TRUE) >>
        /\ token.exists /\ token.DeletionTimestamp
        /\ nextValue > 0 /\ remote = {}

\* C4: CreateToken is called only while the store's copy of the SplunkToken the
\* pass works on carries the finalizer; a pass that read the object without it
\* writes it first, and when that update fails the pass returns the error and
\* has made no other call.
C4_FinalizerBeforeCreate ==
    \A w \in Workers :
        LET p == st[w] IN
        /\ p.pc = "AddFinalizer" =>
              /\ TokenFinalizer \notin p.tokenObject.Finalizers
              /\ p.log = <<>>
        /\ p.pc = "CreateToken" =>
              /\ TokenFinalizer \in p.tokenObject.Finalizers
              /\ token.exists
              /\ token.uid = p.tokenObject.uid
              /\ TokenFinalizer \in token.Finalizers
              /\ p.log \in { <<>>, << Entry("Update", "AddFinalizer", TRUE) >> }
        /\ \A i \in Calls(p, "CreateToken") :
              \/ i = 1
              \/ i = 2 /\ p.log[1] = Entry("Update", "AddFinalizer", TRUE)
        /\ (\E i \in 1..Len(p.log) : p.log[i] = Entry("Update", "AddFinalizer", FALSE)) =>
              /\ p.pc = "done"
              /\ p.res = "err"
              /\ Len(p.log) = 1

C4_Witness ==
    \E w \in Workers :
        /\ st[w].pc = "CreateToken"
        /\ st[w].log = << Entry("Update", "AddFinalizer", TRUE) >>
        /\ token.resourceVersion = 2

\* C5: a SplunkToken that carries the finalizer leaves the store only in the
\* finalizer update of a pass whose DeleteToken(Spec.Name) returned nil; a pass
\* whose DeleteToken returned an error returns that error, has made no other
\* call and has left the SplunkToken as it was.
C5_FailedDeleteInv ==
    \A w \in Workers :
        LET p == st[w] IN
        (\E i \in Calls(p, "DeleteToken") : ~p.log[i].ok) =>
            /\ p.pc = "done"
            /\ p.res = "err"
            /\ Len(p.log) = 1

C5_RemovalStep ==
    /\ (/\ token.exists
        /\ TokenFinalizer \in token.Finalizers
        /\ (~token'.exists \/ token'.uid # token.uid)) =>
           \E w \in Workers :
               /\ st[w].pc = "RemoveFinalizer"
               /\ Steps(w)
               /\ st[w].tokenObject.uid = token.uid
               /\ st[w].log = << Entry("DeleteToken", token.Spec.Name, TRUE) >>
    /\ \A w \in Workers :
           (st[w].pc = "DeleteToken" /\ Steps(w) /\ st'[w].res = "err") =>
               /\ st'[w].pc = "done"
               /\ UNCHANGED token

C5_RemovalAfterRemoteDelete == []C5_FailedDeleteInv /\ [][C5_RemovalStep]_vars

C5_Witness ==
    \E w \in Workers :
        /\ st[w].pc = "done" /\ st[w].res = "err"
        /\ st[w].log = << Entry("DeleteToken", ClusterID, FALSE) >>
        /\ token.exists /\ token.DeletionTimestamp
        /\ TokenFinalizer \in token.Finalizers
        /\ remote # {}

\* C6: with passes run one at a time and crashes anywhere in a pass, every HEC
\* token on the Splunk server that a pass created for a SplunkToken has that
\* SplunkToken still in the store, with the finalizer on it.
C6_NoOrphanedRemoteToken ==
    \A c \in remote :
        /\ token.exists
        /\ token.uid = c.createdFor
        /\ TokenFinalizer \in token.Finalizers

C6_Witness ==
    \E w \in Workers :
        /\ st[w].pc = "done" /\ st[w].res = "crash"
        /\ Calls(st[w], "CreateToken") # {}
        /\ remote # {}
        /\ ~secret.exists
        /\ token.DeletionTimestamp

\* C7: a pass whose r.Get finds no SplunkToken returns nil at once: it has made
\* no store write and no remote call, and store and server are as they were.
C7_NotFoundInv ==
    \A w \in Workers :
        st[w].branch = "done" =>
            st[w].pc = "done" /\ st[w].res = "ok" /\ st[w].log = <<>>

C7_NotFoundStep ==
    \A w \in Workers :
        (~Running(w) /\ ~token.exists /\ st'[w] # st[w]) =>
            /\ st'[w].pc = "done"
            /\ st'[w].log = <<>>
            /\ \/ st'[w].res = "ok" /\ st'[w].branch = "done"
               \/ st'[w].res = "err" /\ st'[w].branch = ""
            /\ UNCHANGED StoreAndRemote

C7_TokenNotFound == []C7_NotFoundInv /\ [][C7_NotFoundStep]_vars

C7_Witness ==
    \E w \in Workers :
        /\ st[w].pc = "done" /\ st[w].branch = "done" /\ st[w].res = "ok"
        /\ ~token.exists
        /\ nextUid > 0

\* C8: a pass that read a SplunkToken without deletion timestamp and within its
\* maximum age, and then finds the Secret, ends there: it has made no store
\* write and no remote call, and store and server are as they were.
C8_ConvergedInv ==
    \A w \in Workers :
        LET p == st[w] IN
        p.pc = "GetSecret" =>
            /\ p.log = <<>>
            /\ p.tokenObject.exists
            /\ ~p.tokenObject.DeletionTimestamp
            /\ p.currentTime <=
                  p.tokenObject.CreationTimestamp + splunkConfig.TokenMaxAge

C8_ConvergedStep ==
    \A w \in Workers :
        (st[w].pc = "GetSecret" /\ secret.exists /\ st'[w] # st[w]) =>
            /\ st'[w].pc = "done"
            /\ st'[w].log = <<>>
            /\ UNCHANGED StoreAndRemote

C8_ConvergedFixedPoint == []C8_ConvergedInv /\ [][C8_ConvergedStep]_vars

C8_Witness ==
    \E w \in Workers :
        /\ st[w].pc = "done" /\ st[w].branch = "GetSecret" /\ st[w].res = "ok"
        /\ st[w].log = <<>>
        /\ secret.exists /\ token.exists /\ secret.owner = token.uid
        /\ remote # {}

\* C9: a pass on a fresh SplunkToken without a Secret that returns nil has
\* called CreateToken once, with the object's Spec, and r.Create of the Secret
\* once, as its last call; the Secret it creates is named splunk-hec-token in
\* the request's namespace, holds under outputs.conf the [httpout] stanza with
\* the value getToken read from the server and the collector URI of the
\* configured instance, is immutable and is owned by the SplunkToken.
C9_CreatePassInv ==
    \A w \in Workers :
        LET p == st[w] IN
        /\ p.pc \in {"getToken", "CreateSecret"} =>
              /\ p.tokenOptions.Spec = p.tokenObject.Spec
              /\ p.tokenOptions.Value = ""
              /\ Cardinality(Calls(p, "CreateToken")) = 1
              /\ Calls(p, "Create") = {}
        /\ (p.pc = "done" /\ p.res = "ok" /\ p.branch = "GetSecret" /\ p.log # <<>>) =>
              /\ Cardinality(Calls(p, "CreateToken")) = 1
              /\ Calls(p, "Create") = {Len(p.log)}
              /\ p.log[Len(p.log)] = Entry("Create", "Secret", TRUE)
              /\ Calls(p, "DeleteToken") = {}
              /\ Calls(p, "Delete") = {}

C9_CreatePassStep ==
    \A w \in Workers :
        /\ (st[w].pc = "getToken" /\ Steps(w) /\ st'[w].res # "err") =>
              /\ st'[w].pc = "CreateSecret"
              /\ \E c \in remote :
                    /\ c.Spec.Name = st[w].tokenObject.Spec.Name
                    /\ st'[w].hecToken.Value = c.Value
        /\ (st[w].pc = "CreateSecret" /\ Steps(w) /\ st'[w].res = "ok") =>
              /\ ~secret.exists
              /\ secret' =
                    [exists |-> TRUE,
                     Name |-> "splunk-hec-token",
                     Namespace |-> Namespace,
                     Data |-> [k \in {"outputs.conf"} |->
                                 "[httpout]\nhttpEventCollectorToken = "
                                    \o st[w].hecToken.Value
                                    \o "\nuri = https://http-inputs-"
                                    \o splunkConfig.SplunkInstance
                                    \o ".splunkcloud.com:443"],
                     Immutable |-> TRUE,
                     owner |-> st[w].tokenObject.uid]

C9_CreatePass == []C9_CreatePassInv /\ [][C9_CreatePassStep]_vars

C9_Witness ==
    \E w \in Workers :
        /\ st[w].pc = "done" /\ st[w].res = "ok" /\ st[w].branch = "GetSecret"
        /\ Len(st[w].log) = 4
        /\ secret.exists /\ token.exists /\ secret.owner = token.uid
        /\ \E c \in remote : c.createdFor = token.uid

\* The Secret holds the outputs.conf made from that token value.
SecretCarries(v) ==
    /\ secret.exists
    /\ secret.Data[SecretDataKey] =
          "[httpout]\nhttpEventCollectorToken = " \o v
             \o "\nuri = https://http-inputs-" \o splunkConfig.SplunkInstance
             \o ".splunkcloud.com:443"

\* The HEC token with value v is on the server, created for the SplunkToken in
\* the store, no Secret carries it, and the last pass called CreateToken, was
\* answered without an error and ended in an error or a crash before the
\* Secret was created.
InterruptedCreate(v) ==
    /\ \E c \in remote : c.Value = v /\ token.exists /\ token.uid = c.createdFor
    /\ ~SecretCarries(v)
    /\ st["w1"].pc = "done"
    /\ st["w1"].res \in {"err", "crash"}
    /\ \E i \in Calls(st["w1"], "CreateToken") : st["w1"].log[i].ok
    /\ \A i \in Calls(st["w1"], "Create") : ~st["w1"].log[i].ok

\* The SplunkToken the HEC token with value v was created for is still in the
\* store, not under deletion and not past its maximum age.
StillFresh(v) ==
    \E c \in remote :
        /\ c.Value = v
        /\ token.exists
        /\ token.uid = c.createdFor
        /\ ~token.DeletionTimestamp
        /\ now <= token.CreationTimestamp + splunkConfig.TokenMaxAge

\* The token values the server can have handed out.
IssuedValues == {TokenValues[i] : i \in 1..MaxValues}

\* The server never holds two HEC tokens of one name.
OneTokenPerName ==
    \A c1, c2 \in remote : c1.Spec.Name = c2.Spec.Name => c1 = c2

\* A POST for a name the server already holds makes no second HEC token: the
\* pass goes on to the read only on 409. And the pass that writes the Secret
\* carrying v has read the HEC token with value v, which is on the server.
C10_HealStep ==
    /\ st["w1"].pc = "CreateToken" /\ RemoteHas(ClusterID) /\ st'["w1"].pc = "getToken" =>
            /\ st'["w1"].StatusCode = StatusConflict
            /\ remote' = remote
    /\ \A v \in IssuedValues :
            ~SecretCarries(v) /\ SecretCarries(v)' =>
                /\ st["w1"].hecToken.Value = v
                /\ st["w1"].log[Len(st["w1"].log)] = Entry("getToken", ClusterID, TRUE)
                /\ \E c \in remote' : c.Value = v

\* C10 as stated: after an interrupted create, a Secret carrying the value of
\* the HEC token that was created is eventually written, and the server never
\* holds two HEC tokens of one name.
C10_Original ==
    /\ []OneTokenPerName
    /\ \A v \in IssuedValues : InterruptedCreate(v) ~> SecretCarries(v)

\* C10 as amended: after an interrupted create, either a Secret carrying the
\* value of the HEC token that was created is eventually written, or the
\* SplunkToken is deleted or passes its maximum age first; and the server never
\* holds two HEC tokens of one name.
C10_SelfHealing ==
    /\ []OneTokenPerName
    /\ [][C10_HealStep]_vars
    /\ \A v \in IssuedValues :
          InterruptedCreate(v) ~> (SecretCarries(v) \/ ~StillFresh(v))

\* A pass whose POST was answered 409 has read the HEC token an interrupted
\* pass created and has written the Secret with its value.
C10_Witness ==
    /\ st["w1"].pc = "done" /\ st["w1"].res = "ok"
    /\ st["w1"].log = << Entry("CreateToken", ClusterID, TRUE),
                         Entry("getToken", ClusterID, TRUE),
                         Entry("Create", "Secret", TRUE) >>
    /\ st["w1"].StatusCode = StatusConflict
    /\ SecretCarries(TokenValues[1])
    /\ StillFresh(TokenValues[1])

\* The SplunkToken in the store is past its maximum age.
Aged ==
    /\ token.exists
    /\ IsStale(now, token.CreationTimestamp, splunkConfig.TokenMaxAge)

\* The SplunkToken with identity u and the HEC token created for it are gone.
Gone(u) ==
    /\ ~(token.exists /\ token.uid = u)
    /\ \A c \in remote : c.createdFor # u

\* A SplunkToken, the HEC token created for it and its Secret carrying that
\* token's value all exist.
Provisioned ==
    /\ token.exists
    /\ secret.exists
    /\ secret.owner = token.uid
    /\ \E c \in remote :
          /\ c.createdFor = token.uid
          /\ c.Spec.Name = token.Spec.Name
          /\ SecretCarries(c.Value)

\* C11 as stated: once the SplunkToken has aged past the maximum while the
\* ClusterDeployment exists, it and its HEC token are eventually deleted and
\* afterwards a new SplunkToken, HEC token and Secret eventually exist. A
\* positive maximum age is given the benefit of a clock that does not outrun
\* the reconciler: for it, a new SplunkToken that aged before a pass
\* provisioned it is not counted.
C11_RotationCompletes ==
    \A a \in MaxAges : \A u \in 1..MaxTokens :
        (splunkConfig.TokenMaxAge = a /\ Aged /\ token.uid = u /\ cd.exists)
            ~> (Gone(u) /\ <>(Provisioned \/ (a # 0 /\ Aged)))

\* C12 as stated: once deletion of a SplunkToken that has not aged is
\* requested while the ClusterDeployment exists, the SplunkToken and its HEC
\* token are eventually gone and afterwards a new SplunkToken, HEC token and
\* Secret eventually exist. A positive maximum age is given the benefit of a
\* clock that does not outrun the reconciler, as for C11.
C12_ManualRotation ==
    \A a \in MaxAges : \A u \in 1..MaxTokens :
        (splunkConfig.TokenMaxAge = a /\ token.exists /\ token.DeletionTimestamp
            /\ ~Aged /\ token.uid = u /\ cd.exists)
            ~> (Gone(u) /\ <>(Provisioned \/ (a # 0 /\ Aged)))

\* C13 as stated: whenever a Secret exists, the server holds an HEC token of
\* the SplunkToken's name whose value is the one in the Secret.
C13_SecretInSync ==
    secret.exists =>
        \E c \in remote : c.Spec.Name = ClusterID /\ SecretCarries(c.Value)

\* The SplunkToken with identity u is in the store and its deletion has not
\* been requested.
Undeleted(u) == token.exists /\ token.uid = u /\ ~token.DeletionTimestamp

\* Worker w is in a pass over the SplunkToken with identity u and CreateToken
\* has returned a token to it.
Obtained(w, u) ==
    /\ st[w].pc = "CreateSecret"
    /\ st[w].tokenObject.uid = u

\* The current or last pass of worker w created the Secret.
CreatedSecret(w) ==
    \E i \in Calls(st[w], "Create") : st[w].log[i] = Entry("Create", "Secret", TRUE)

\* C14, in every state: the server holds at most one HEC token of a name; while
\* the SplunkToken is not deleted, the overlapping passes that CreateToken has
\* answered hold the value of the one HEC token on the server, at most one of
\* them has created the Secret, and the Secret carries that value.
C14_OverlapInv ==
    /\ OneTokenPerName
    /\ \A u \in 1..MaxTokens :
          Undeleted(u) =>
             /\ \A w \in Workers :
                   Obtained(w, u) =>
                      \E c \in remote : c.Spec.Name = token.Spec.Name
                                         /\ c.Value = st[w].hecToken.Value
             /\ \A w1, w2 \in Workers :
                   Obtained(w1, u) /\ Obtained(w2, u) =>
                      st[w1].hecToken.Value = st[w2].hecToken.Value
             /\ \A w1, w2 \in Workers :
                   CreatedSecret(w1) /\ CreatedSecret(w2) => w1 = w2
             /\ secret.exists =>
                   \E c \in remote : c.Spec.Name = token.Spec.Name
                                      /\ SecretCarries(c.Value)

\* C14, in every step: a POST for a name the server holds is answered 409 and
\* makes no second HEC token, and while the SplunkToken is not deleted its
\* Secret, once created, is not created again.
C14_OverlapStep ==
    /\ \A w \in Workers :
          st[w].pc = "CreateToken" /\ RemoteHas(ClusterID) /\ st'[w].pc = "getToken" =>
             st'[w].StatusCode = StatusConflict /\ remote' = remote
    /\ \A u \in 1..MaxTokens :
          Undeleted(u) /\ secret.exists /\ Undeleted(u)' => secret' = secret

\* C14: overlapping passes over one fresh SplunkToken without a Secret end with
\* one HEC token, one value and one Secret carrying it.
C14_OverlappingCreates == []C14_OverlapInv /\ [][C14_OverlapStep]_vars

\* Both workers have called CreateToken in overlapping passes: one was
\* answered 202 and has created the Secret, the other was answered 409, has
\* read the same value and holds it.
C14_Witness ==
    /\ Undeleted(1)
    /\ st["w1"].pc = "done" /\ st["w1"].res = "ok" /\ st["w1"].StatusCode = StatusAccepted
    /\ CreatedSecret("w1")
    /\ Obtained("w2", 1)
    /\ st["w2"].StatusCode = StatusConflict
    /\ st["w2"].hecToken.Value = TokenValues[1]
    /\ SecretCarries(TokenValues[1])
    /\ Cardinality(remote) = 1

\* C15 as stated: under overlapping passes, once every pass has finished and
\* the SplunkToken is physically removed, the server holds no HEC token of its
\* name, and a Secret that is left is one the garbage collector removes.
C15_NoLeakAfterRemoval ==
    (\A w \in Workers : ~Running(w)) /\ ~token.exists =>
        /\ ~RemoteHas(ClusterID)
        /\ secret.exists => SecretOrphaned

\* Every failed call on the record of pass p is the last call of the pass, and
\* the pass has returned the error.
ErrorPropagated(p) ==
    \A i \in 1..Len(p.log) :
        ~p.log[i].ok => i = Len(p.log) /\ p.pc = "done" /\ p.res = "err"

\* C16 as stated: in both reconcilers a failed store write or remote call is the
\* last of its pass and the pass returns the error.
C16_ErrorsPropagated ==
    /\ \A w \in Workers : ErrorPropagated(st[w])
    /\ ErrorPropagated(cdr)

\* C17: a pass of the SplunkTokenReconciler sends at most one POST, at most one
\* GET, which follows the POST at once, and at most one DELETE, and never both
\* a POST and a DELETE.
C17_NoRetries ==
    \A w \in Workers :
        LET p == st[w] IN
        /\ Cardinality(Calls(p, "CreateToken")) <= 1
        /\ Cardinality(Calls(p, "getToken")) <= 1
        /\ Cardinality(Calls(p, "DeleteToken")) <= 1
        /\ Calls(p, "CreateToken") = {} \/ Calls(p, "DeleteToken") = {}
        /\ \A i \in Calls(p, "getToken") :
              i > 1 /\ p.log[i - 1] = Entry("CreateToken", p.log[i].arg, TRUE)

\* The read after an accepted POST has failed and the pass has returned the
\* error: one POST, one GET, no second try.
C17_Witness ==
    /\ st["w1"].pc = "done"
    /\ st["w1"].res = "err"
    /\ st["w1"].log = << Entry("CreateToken", ClusterID, TRUE),
                         Entry("getToken", ClusterID, FALSE) >>
    /\ RemoteHas(ClusterID)

\* C18: NewClient sends no request; with an empty instance name it returns no
\* client and the missing-instance error, with an instance name and an empty
\* JWT no client and the missing-credential error, and with both set a client
\* whose URL is the HEC token collection of the instance on admin.splunk.com
\* and whose JWT is the one supplied.
C18_NewClientContract ==
    api.call = "NewClient" =>
       /\ api.requests = <<>>
       /\ remote = {}
       /\ api.splunkStack = "" =>
             api.client = NoClient /\ api.err = "missing Splunk instance name"
       /\ api.splunkStack # "" /\ api.jwt = "" =>
             api.client = NoClient /\ api.err = "missing Splunk authentication token"
       /\ api.splunkStack # "" /\ api.jwt # "" =>
             /\ api.err = ""
             /\ api.client.jwt = api.jwt
             /\ api.client.url =
                  "https://admin.splunk.com/" \o api.splunkStack
                     \o "/adminconfig/v2/inputs/http-event-collectors"

\* NewClient was called with neither an instance name nor a JWT and reported
\* the missing instance name.
C18_Witness ==
    /\ api.call = "NewClient"
    /\ api.splunkStack = "" /\ api.jwt = ""
    /\ api.client = NoClient
    /\ api.err = missingSplunkError

\* The spec in the body of the POST of the last CreateToken call.
SentSpec == api.requests[1].Body[1]

\* The default index of the spec is set and is none of its allowed indexes.
DefaultMissing(spec) ==
    /\ spec.DefaultIndex # ""
    /\ \A i \in 1..Len(spec.AllowedIndexes.elems) : spec.AllowedIndexes.elems[i] # spec.DefaultIndex

\* C19: the spec CreateToken sends has the name and default index of the
\* input; its allowed indexes are those of the input in the same order,
\* followed by the default index exactly when that is set and not among them;
\* and CreateToken would send the sent spec as it is.
C19_PayloadNormalized ==
    api.call = "CreateToken" =>
       LET in == api.token.Spec
           out == SentSpec
           a == in.AllowedIndexes.elems
           b == out.AllowedIndexes.elems
       IN
       /\ api.requests[1].Method = "POST"
       /\ out.Name = in.Name
       /\ out.DefaultIndex = in.DefaultIndex
       /\ \A i \in 1..Len(a) : i <= Len(b) /\ b[i] = a[i]
       /\ IF DefaultMissing(in)
          THEN Len(b) = Len(a) + 1 /\ b[Len(b)] = in.DefaultIndex
          ELSE Len(b) = Len(a)
       /\ ~DefaultMissing(out)
       /\ CreateTokenPayload(out) = out

\* CreateToken was handed a default index that is not among the allowed
\* indexes and sent the allowed index followed by the default index.
C19_Witness ==
    /\ api.call = "CreateToken"
    /\ api.token.Spec.DefaultIndex = "audit_index"
    /\ api.token.Spec.AllowedIndexes = Slice(<<"other_index">>)
    /\ SentSpec.AllowedIndexes = Slice(<<"other_index", "audit_index">>)
    /\ api.err = ""

\* The data-model invariant of a spec: a default index that is set is one of
\* the allowed indexes, and no allowed index is listed twice.
SpecInvariant(spec) ==
    /\ spec.DefaultIndex # "" => spec.DefaultIndex \in Range(spec.AllowedIndexes.elems)
    /\ \A i, j \in 1..Len(spec.AllowedIndexes.elems) :
          spec.AllowedIndexes.elems[i] = spec.AllowedIndexes.elems[j] => i = j

\* The stored SplunkToken carries the indexes of a deployment type as configured.
StoredAsConfigured ==
    \E c \in {splunkConfig.Classic, splunkConfig.HCP} :
       /\ token.Spec.DefaultIndex = c.DefaultIndex
       /\ token.Spec.AllowedIndexes = c.AllowedIndexes

\* C20 as stated: the spec of the stored SplunkToken satisfies the data-model
\* invariant in every reachable state.
C20_Original == token.exists => SpecInvariant(token.Spec)

\* C20: the spec of every HEC token on the Splunk server satisfies the
\* data-model invariant; the stored SplunkToken carries the configured
\* indexes as they are, the default index appended to nothing.
C20_RemoteSpecInvariant ==
    /\ \A c \in remote : SpecInvariant(c.Spec)
    /\ token.exists => StoredAsConfigured

\* The stored SplunkToken has a default index outside its allowed indexes,
\* and the HEC token made from it has the default index appended.
C20_Witness ==
    /\ token.exists
    /\ token.Spec.DefaultIndex = "classic_index"
    /\ token.Spec.AllowedIndexes = Slice(<<"another_classic_index">>)
    /\ \E c \in remote :
          /\ c.createdFor = token.uid
          /\ c.Spec.AllowedIndexes = Slice(<<"another_classic_index", "classic_index">>)

\* C21: when the POST of CreateToken is answered with a status from 400 on
\* other than 409, the call sends nothing more and returns the error made of
\* the code and message of that response; on every other status it sends
\* exactly one GET of the named token and returns what that GET gave: the
\* error of the GET when its status is from 400 on, and otherwise the token
\* of the GET's body with the value the body holds, or the decoder's error
\* when the body is empty.
C21_CreateResponseHandling ==
    api.call = "CreateToken" =>
       LET postRes == api.responses[1]
           name == api.token.Spec.Name
       IN
       IF api.pc = "getToken"
       THEN /\ Len(api.requests) = 1 /\ Len(api.responses) = 1
            /\ postRes.StatusCode < 400 \/ postRes.StatusCode = 409
       ELSE
       /\ Len(api.responses) = Len(api.requests)
       /\ IF postRes.StatusCode >= 400 /\ postRes.StatusCode # 409
          THEN /\ Len(api.requests) = 1
               /\ api.ret = NoHECToken
               /\ api.err = "received error response " \o postRes.Error.Code
                               \o ": " \o postRes.Error.Message
          ELSE /\ Len(api.requests) = 2
               /\ api.requests[2].Method = "GET"
               /\ api.requests[2].URL = api.client.url \o "/" \o name
               /\ IF api.responses[2].StatusCode >= 400
                  THEN /\ api.ret = NoHECToken
                       /\ api.err = "received error response "
                                       \o api.responses[2].Error.Code
                                       \o ": " \o api.responses[2].Error.Message
                  ELSE IF api.responses[2].Empty
                       THEN api.ret = NoHECToken /\ api.err = "EOF"
                       ELSE api.err = "" /\ api.ret = api.responses[2].Data

\* A POST answered 409 was followed by the GET, and the call returned the
\* value of the token the server already held.
C21_Witness ==
    /\ api.call = "CreateToken"
    /\ api.responses[1].StatusCode = StatusConflict
    /\ Len(api.requests) = 2
    /\ api.err = ""
    /\ api.ret.Value = TokenValues[1]

\* The last call was DeleteToken and the DELETE was answered with this status.
DeleteAnswered(status) ==
    /\ api.call = "DeleteToken"
    /\ api.responses[1].StatusCode = status

\* After a DeleteToken call: one DELETE of the named token was sent, and the
\* call succeeded exactly when the status was 404 or 202.
C22_DeleteStatus ==
    api.call = "DeleteToken" =>
       /\ Len(api.requests) = 1
       /\ api.requests[1].Method = "DELETE"
       /\ api.requests[1].URL = api.client.url \o "/" \o api.token.Spec.Name
       /\ api.err = "" <=> api.responses[1].StatusCode \in {404, 202}

\* A DeleteToken call for a name the server does not hold, answered 404,
\* succeeds and leaves the server as it was.
C22_DeleteAgainStep ==
    (ClientDeleteToken /\ ~RemoteHas(api.token.Spec.Name) /\ DeleteAnswered(404)')
       => api'.err = "" /\ remote' = remote

\* C22: DeleteToken succeeds when the DELETE is answered 404 or 202 and fails
\* on every other status, so 404 is the only status from 400 on that it
\* turns into success; deleting a name that is already deleted succeeds and
\* changes nothing.
C22_DeleteTokenContract == []C22_DeleteStatus /\ [][C22_DeleteAgainStep]_vars

\* The token was created and deleted, and a further DeleteToken, answered 404,
\* succeeded.
C22_Witness ==
    /\ DeleteAnswered(StatusNotFound)
    /\ api.err = ""
    /\ nextValue = 1
    /\ remote = {}

\* The ClusterDeployment in the store has no identity label.
LabelMissing == cd.exists /\ "api.openshift.com/id" \notin DOMAIN cd.Labels

\* While the ClusterDeployment has no identity label, no pass gets as far as
\* reading or writing the SplunkToken, and the pass that has returned with the
\* label-missing error has written nothing.
C23_NoWriteInv ==
    /\ LabelMissing => cdr.pc \in {"idle", "done"} /\ cdr.log = <<>>
    /\ cdr.err = LabelMissingError => cdr.pc = "done" /\ cdr.res = "err" /\ cdr.log = <<>>

\* A pass that finds the ClusterDeployment without identity label returns the
\* label-missing error and leaves SplunkToken and SyncSet as they are.
C23_LabelMissingStep ==
    (CdGet /\ LabelMissing /\ cdr'.err # StoreError)
       => /\ cdr'.pc = "done"
          /\ cdr'.res = "err"
          /\ cdr'.err = "label api.openshift.com/id not found on ClusterDeployment"
          /\ UNCHANGED <<token, syncset>>

\* C23: a pass on a ClusterDeployment without the identity label returns the
\* label-missing error and writes nothing to the store: no SplunkToken and no
\* SyncSet is created or updated.
C23_LabelMissing == []C23_NoWriteInv /\ [][C23_LabelMissingStep]_vars

\* A pass has returned the label-missing error and the store holds no
\* SplunkToken.
C23_Witness ==
    /\ LabelMissing
    /\ cdr.pc = "done"
    /\ cdr.err = LabelMissingError
    /\ ~token.exists

\* The ClusterDeployment carries the cluster-type label with the value
\* "management-cluster".
IsManagementCluster ==
    /\ "ext-hypershift.openshift.io/cluster-type" \in DOMAIN cd.Labels
    /\ cd.Labels["ext-hypershift.openshift.io/cluster-type"] = "management-cluster"

\* The spec a pass is to give the SplunkToken of the ClusterDeployment: the
\* value of the identity label as name, and the HCP indexes for a management
\* cluster, the classic indexes for every other cluster.
DesiredSpec ==
    LET c == IF IsManagementCluster THEN splunkConfig.HCP ELSE splunkConfig.Classic
    IN SplunkTokenSpec(cd.Labels["api.openshift.com/id"],
                       c.DefaultIndex, c.AllowedIndexes)

\* The indexes of the two specs are the same: the default index, and the
\* allowed indexes entry by entry; a list without entries is the same list
\* whether it is the nil slice or an empty one.
SameIndexes(a, b) ==
    /\ a.DefaultIndex = b.DefaultIndex
    /\ Len(a.AllowedIndexes.elems) = Len(b.AllowedIndexes.elems)
    /\ \A i \in 1..Len(a.AllowedIndexes.elems) :
          a.AllowedIndexes.elems[i] = b.AllowedIndexes.elems[i]

\* The two specs have the same name and the same indexes.
SameSpec(a, b) == a.Name = b.Name /\ SameIndexes(a, b)

\* A pass that has read the ClusterDeployment holds the desired name and indexes.
C24_SelectedInv ==
    cdr.pc \in {"GetToken", "Write"} =>
       /\ cdr.tokenName = DesiredSpec.Name
       /\ cdr.defaultIndex = DesiredSpec.DefaultIndex
       /\ cdr.allowedIndexes = DesiredSpec.AllowedIndexes

\* A pass that writes the SplunkToken writes the desired spec.
C24_WriteStep ==
    ((CdCreate \/ CdUpdate) /\ token' # token) => SameSpec(token'.Spec, DesiredSpec)

\* C24: the indexes a pass selects are the HCP configuration exactly when the
\* cluster-type label is "management-cluster" and the classic configuration
\* otherwise, label absent or of any other value; the name is the value of the
\* identity label.
C24_IndexSelection == []C24_SelectedInv /\ [][C24_WriteStep]_vars

\* A cluster whose type label is not "management-cluster" got a SplunkToken
\* with the classic indexes.
C24_Witness ==
    /\ cd.Labels = [l \in {ClusterIDLabel, ClusterTypeLabel} |->
                      IF l = ClusterIDLabel THEN ClusterID ELSE "Management-Cluster"]
    /\ cdr.pc = "done" /\ cdr.res = "ok"
    /\ cdr.log = <<[op |-> "Create", arg |-> "SplunkToken", ok |-> TRUE]>>
    /\ token.exists
    /\ token.Spec = SplunkTokenSpec(ClusterID, splunkConfig.Classic.DefaultIndex,
                                    splunkConfig.Classic.AllowedIndexes)
    /\ splunkConfig.Classic # splunkConfig.HCP

\* A pass that finds no SplunkToken goes on to create it, and the SplunkToken
\* it creates has the desired spec and the ClusterDeployment as owner.
C25_AbsentStep ==
    /\ (CdGetToken /\ ~token.exists /\ cdr'.res # "err") => cdr'.pc = "Write"
    /\ (CdCreate /\ cdr'.res = "ok") =>
          /\ token'.exists
          /\ SameSpec(token'.Spec, DesiredSpec)
          /\ token'.owner = ClusterName

\* C25 as stated: for every ClusterDeployment with the identity label and every
\* index configuration, the empty one included, a pass that finds no
\* SplunkToken and returns without error has created it with the desired spec
\* and the ClusterDeployment as owner.
C25_CreatesWhenAbsent == [][C25_AbsentStep]_vars

\* A pass that reads a SplunkToken with the desired indexes returns nil
\* without a write; one that reads a SplunkToken with other indexes, the same
\* allowed indexes in another order included, goes on to update it.
C26_CompareStep ==
    (CdGetToken /\ token.exists /\ cdr'.res # "err") =>
       IF SameIndexes(DesiredSpec, token.Spec)
       THEN /\ cdr'.pc = "done" /\ cdr'.res = "ok" /\ cdr'.log = <<>>
            /\ UNCHANGED <<token, syncset, nextUid>>
       ELSE /\ cdr'.pc = "Write" /\ cdr'.tokenExists
            /\ cdr'.splunktoken.Spec.AllowedIndexes = DesiredSpec.AllowedIndexes

\* A pass updates only a SplunkToken with other indexes than the desired
\* ones, and its update stores the desired indexes.
C26_UpdateStep ==
    (CdUpdate /\ cdr'.res = "ok") =>
       /\ ~SameIndexes(DesiredSpec, token.Spec)
       /\ SameIndexes(DesiredSpec, token'.Spec)

\* C26: when the SplunkToken is there and its default index and allowed
\* indexes, entry by entry in order, are the computed ones, the pass writes
\* nothing and returns nil; the same allowed indexes in another order are
\* different indexes, and the pass updates the SplunkToken.
C26_NoOpWhenEqual == [][C26_CompareStep /\ C26_UpdateStep]_vars

\* The step with which a pass of the ClusterDeployment reconciler returns nil.
CdReturnsNil == CdRunning /\ cdr'.pc = "done" /\ cdr'.res = "ok"

\* After a pass that returns nil there is a SplunkToken with the desired
\* indexes, and a SplunkToken the pass has written has the whole desired spec
\* and the ClusterDeployment as owner; a pass that reads a SplunkToken with
\* other indexes is about to write just that.
C27_ConvergeStep ==
    /\ CdReturnsNil =>
          /\ token'.exists
          /\ SameIndexes(DesiredSpec, token'.Spec)
          /\ token' # token =>
                SameSpec(token'.Spec, DesiredSpec) /\ token'.owner = ClusterName
    /\ (CdGetToken /\ token.exists /\ cdr'.res # "err"
          /\ ~SameIndexes(DesiredSpec, token.Spec)) =>
          /\ cdr'.pc = "Write"
          /\ cdr'.splunktoken.Spec = DesiredSpec
          /\ cdr'.splunktoken.owner = ClusterName

\* C27 as stated: after every pass that returns nil the stored SplunkToken has
\* the desired default index and allowed indexes, and a pass that finds other
\* indexes overwrites the whole spec, name included, and sets the owner. The
\* name is given the benefit of the comparison the spec describes, which is
\* of the indexes: a SplunkToken left alone may keep the name it has.
C27_IndexesConverge == [][C27_ConvergeStep]_vars

\* A pass starts when the ClusterDeployment is gone, and its r.Get fails with
\* nothing but NotFound.
CdStartsWhenGone == ~CdRunning /\ cdr' # cdr /\ ~cd.exists /\ cdr'.err # StoreError

\* C28 as stated: a pass that does not find the ClusterDeployment returns nil
\* and writes nothing.
C28_Original ==
    [][CdStartsWhenGone =>
          /\ cdr'.pc = "done" /\ cdr'.res = "ok" /\ cdr'.log = <<>>
          /\ UNCHANGED <<token, syncset>>]_vars

\* C28: a pass of the reconciler without the SyncSet that does not find the
\* ClusterDeployment returns the NotFound error of r.Get and writes nothing.
C28_GoneIsAnError ==
    [][CdStartsWhenGone =>
          /\ cdr'.pc = "done" /\ cdr'.res = "err" /\ cdr'.err = "not found"
          /\ cdr'.log = <<>>
          /\ UNCHANGED <<token, syncset>>]_vars

\* The ClusterDeployment is gone and a pass has returned the NotFound error.
C28_Witness ==
    /\ ~cd.exists
    /\ cdr.pc = "done" /\ cdr.res = "err" /\ cdr.err = NotFoundError
    /\ cdr.log = <<>>

\* The SyncSet changes only by being created, in the step of a pass that
\* follows the r.Get which did not find it; a pass gets to that step only from
\* that r.Get and only when there is no SyncSet; and a pass tries to create
\* it at most once.
C29_SyncSetStep ==
    /\ syncset' # syncset =>
          /\ cdr.pc = "CreateSyncSet"
          /\ ~syncset.exists
          /\ syncset' = [exists |-> TRUE, ClusterDeploymentRefs |-> <<ClusterName>>,
                         owner |-> ClusterName]
    /\ (cdr'.pc = "CreateSyncSet" /\ cdr.pc # "CreateSyncSet") =>
          cdr.pc = "GetSyncSet" /\ ~syncset.exists
    /\ Cardinality({ i \in 1..Len(cdr'.log) : cdr'.log[i].arg = "SyncSet" }) <= 1

\* C29: over any sequence of passes of the reconciler with the SyncSet, the
\* SyncSet is created at most once, only after r.Get did not find it, and once
\* it exists the reconciler never changes or deletes it.
C29_SyncSetCreatedOnce ==
    [][C29_SyncSetStep /\ (syncset.exists => syncset' = syncset)]_vars

\* The SyncSet exists, and a later pass that updated the SplunkToken found it
\* and created nothing.
C29_Witness ==
    /\ syncset.exists
    /\ cdr.pc = "done" /\ cdr.res = "ok"
    /\ cdr.log = <<[op |-> "Update", arg |-> "SplunkToken", ok |-> TRUE]>>

\* C30 as stated: after every pass of the reconciler with the SyncSet that
\* returns nil for a ClusterDeployment with the identity label, the SyncSet
\* exists, owned by the ClusterDeployment and referring to it, also when the
\* SplunkToken had the desired spec already.
C30_SyncSetAfterSuccess ==
    [][(CdReturnsNil /\ cd.exists) =>
          /\ syncset'.exists
          /\ syncset'.owner = ClusterName
          /\ syncset'.ClusterDeploymentRefs = <<ClusterName>>]_vars


\* The operations on the record of pass p.
LogOps(p) == { p.log[i].op : i \in 1..Len(p.log) }

\* Worker w starts a pass whose r.Get finds the SplunkToken.
ReadsToken(w) ==
    /\ ~Running(w)
    /\ st'[w] # st[w]
    /\ st'[w].branch # ""
    /\ token.exists

\* C31: a pass that reads a SplunkToken which carries a deletion timestamp and
\* is past its maximum age takes the deletion branch (DeleteToken, then the
\* update without the finalizer) and never calls r.Delete; a pass that reads a
\* stale SplunkToken without deletion timestamp takes the rotation branch, with
\* or without a Secret, and never reads the Secret or calls CreateToken.
C31_BranchStep ==
    \A w \in Workers :
        (ReadsToken(w) /\ IsStale(now, token.CreationTimestamp, splunkConfig.TokenMaxAge)) =>
            /\ token.DeletionTimestamp =>
                  st'[w].pc = "DeleteToken" /\ st'[w].branch = "DeleteToken"
            /\ ~token.DeletionTimestamp =>
                  st'[w].pc = "DeleteObject" /\ st'[w].branch = "DeleteObject"

C31_BranchInv ==
    \A w \in Workers :
        LET p == st[w] IN
        /\ p.branch = "DeleteToken" =>
              /\ p.pc \in {"DeleteToken", "RemoveFinalizer", "done"}
              /\ LogOps(p) \subseteq {"DeleteToken", "Update"}
              /\ \A i \in Calls(p, "Update") :
                    /\ p.log[i].arg = "RemoveFinalizer"
                    /\ i = 2 /\ p.log[1] = Entry("DeleteToken", ClusterID, TRUE)
        /\ p.branch = "DeleteObject" =>
              /\ p.pc \in {"DeleteObject", "done"}
              /\ LogOps(p) \subseteq {"Delete"}
        /\ p.pc \in {"DeleteToken", "RemoveFinalizer"} => p.branch = "DeleteToken"
        /\ (p.pc \in {"GetSecret", "AddFinalizer", "CreateToken", "getToken", "CreateSecret"}) =>
              /\ ~p.tokenObject.DeletionTimestamp
              /\ ~IsStale(p.currentTime, p.tokenObject.CreationTimestamp,
                          splunkConfig.TokenMaxAge)

C31_StepPrecedence == []C31_BranchInv /\ [][C31_BranchStep]_vars

\* A pass on a stale SplunkToken with a deletion timestamp and no Secret has
\* called DeleteToken and is about to remove the finalizer.
C31_Witness ==
    \E w \in Workers :
        /\ st[w].pc = "RemoveFinalizer"
        /\ st[w].tokenObject.DeletionTimestamp
        /\ IsStale(st[w].currentTime, st[w].tokenObject.CreationTimestamp,
                   splunkConfig.TokenMaxAge)
        /\ ~secret.exists
        /\ st[w].log = << Entry("DeleteToken", ClusterID, TRUE) >>


\* The SplunkToken with identity u is in the store with a deletion timestamp
\* and the finalizer.
UnderDeletion(u) ==
    /\ token.exists
    /\ token.uid = u
    /\ token.DeletionTimestamp
    /\ TokenFinalizer \in token.Finalizers

\* A DeleteToken for a name the server does not hold is not an error when the
\* server answers it: the pass goes on to remove the finalizer and the server's
\* tokens stay as they are.
C32_AbsorbedStep ==
    (/\ st["w1"].pc = "DeleteToken"
     /\ ~RemoteHas(st["w1"].tokenObject.Spec.Name)
     /\ st'["w1"] # st["w1"]
     /\ st'["w1"].res \notin {"err", "crash"}) =>
        /\ st'["w1"].pc = "RemoveFinalizer"
        /\ st'["w1"].log = << Entry("DeleteToken", st["w1"].tokenObject.Spec.Name, TRUE) >>
        /\ remote' = remote

\* A pass of the deletion branch that fails or crashes leaves the SplunkToken,
\* with its finalizer, and the Secret as they were, for the next pass to find.
C32_FailStep ==
    (/\ st["w1"].pc \in {"DeleteToken", "RemoveFinalizer"}
     /\ st'["w1"] # st["w1"]
     /\ st'["w1"].res \in {"err", "crash"}) =>
        UNCHANGED <<token, secret>>

\* C32: a SplunkToken with a deletion timestamp and the finalizer eventually
\* leaves the store, whatever passes failed at DeleteToken or at the finalizer
\* update or crashed between the two before, when Reconcile is invoked again
\* and again and store and server eventually answer; a DeleteToken repeated
\* after the HEC token was already deleted is answered 404, counts as success
\* and is followed by the finalizer update.
C32_DeletionCompletes ==
    /\ [][C32_AbsorbedStep /\ C32_FailStep]_vars
    /\ \A u \in 0..MaxTokens :
          UnderDeletion(u) ~> ~(token.exists /\ token.uid = u)

\* A pass deleted the HEC token and ended by a crash or a failed finalizer
\* update; the next pass is about to call DeleteToken again for the SplunkToken,
\* which still waits with its finalizer.
C32_Witness ==
    /\ st["w1"].pc = "DeleteToken"
    /\ st["w1"].log = <<>>
    /\ UnderDeletion(token.uid)
    /\ nextValue > 0
    /\ remote = {}


\* A step of a pass of the SplunkTokenReconciler.
StPassStep == st' # st

\* C33: a step of a SplunkTokenReconciler pass changes the stored SplunkToken
\* only by writing it with the finalizer added, by writing it with the
\* finalizer removed, or by r.Delete, and none of these changes its spec, its
\* owner or its creation time; the spec CreateToken sends may differ from the
\* stored one, which stays as it is. The Secret is changed only by creating
\* it when there is none; ClusterDeployment and SyncSet are never written.
C33_ConfinedStep ==
    StPassStep =>
        /\ token' # token =>
              /\ token.exists
              /\ \/ token' = StoreUpdate(AddFinalizer(token, TokenFinalizer))
                 \/ token' = StoreUpdate(RemoveFinalizer(token, TokenFinalizer))
                 \/ token' = StoreDelete(token)
              /\ token'.exists =>
                    /\ token'.Spec = token.Spec
                    /\ token'.uid = token.uid
                    /\ token'.owner = token.owner
                    /\ token'.CreationTimestamp = token.CreationTimestamp
        /\ secret' # secret =>
              /\ ~secret.exists
              /\ secret'.exists
        /\ \A w \in Workers :
              st[w].pc \in {"CreateToken", "getToken"} => UNCHANGED <<token, secret>>
        /\ UNCHANGED <<cd, syncset>>

C33_ConfinedWrites == [][C33_ConfinedStep]_vars

\* A pass has sent a spec with the default index appended, the server holds
\* that spec, the Secret is written, and the stored SplunkToken still has the
\* allowed indexes without the default index.
C33_Witness ==
    /\ st["w1"].pc = "done" /\ st["w1"].res = "ok"
    /\ Calls(st["w1"], "Create") # {}
    /\ secret.exists
    /\ token.exists
    /\ token.Spec.AllowedIndexes = Slice(<<"another_classic_index">>)
    /\ \E c \in remote :
          /\ c.createdFor = token.uid
          /\ c.Spec.AllowedIndexes = Slice(<<"another_classic_index", "classic_index">>)


\* A step of a pass of the ClusterDeploymentReconciler.
CdPassStep == cdr' # cdr

\* The pass is about to r.Update a SplunkToken that was written since the pass
\* read it.
StaleWrite ==
    /\ cdr.pc = "Write"
    /\ cdr.tokenExists
    /\ token.exists
    /\ token.uid = cdr.splunktoken.uid
    /\ token.resourceVersion # cdr.splunktoken.resourceVersion

\* C34: a step of a ClusterDeploymentReconciler pass that changes a stored
\* SplunkToken is an r.Update based on the stored version; it leaves the object
\* in the store with the finalizers, the deletion timestamp, the identity and
\* the creation time it had and changes only spec and owner. An r.Update based
\* on a version that a SplunkTokenReconciler pass (or anyone else) has written
\* over since is refused: the step leaves the object as it is and the pass
\* returns the error.
C34_UpdateStep ==
    CdPassStep =>
        /\ (token.exists /\ token' # token) =>
              /\ cdr.pc = "Write" /\ cdr.tokenExists
              /\ cdr.splunktoken.uid = token.uid
              /\ cdr.splunktoken.resourceVersion = token.resourceVersion
              /\ token'.exists
              /\ token'.uid = token.uid
              /\ token'.Finalizers = token.Finalizers
              /\ token'.DeletionTimestamp = token.DeletionTimestamp
              /\ token'.CreationTimestamp = token.CreationTimestamp
              /\ token' = [token EXCEPT !.Spec = token'.Spec, !.owner = ClusterName,
                                        !.resourceVersion = token.resourceVersion + 1]
        /\ StaleWrite =>
              /\ token' = token
              /\ cdr'.res \in {"err", "crash"}
        /\ UNCHANGED secret

C34_UpdateKeepsLifecycle == [][C34_UpdateStep]_vars

\* The pass of the ClusterDeploymentReconciler read the SplunkToken without
\* finalizer and is about to update it; meanwhile a SplunkTokenReconciler pass
\* has written the finalizer.
C34_Witness ==
    /\ StaleWrite
    /\ TokenFinalizer \notin cdr.splunktoken.Finalizers
    /\ TokenFinalizer \in token.Finalizers
    /\ Entry("Update", "AddFinalizer", TRUE) \in Range(st["w1"].log)


\* C35 as stated: for every maximum age, zero included, a SplunkToken the
\* ClusterDeploymentReconciler created for the labelled ClusterDeployment is
\* eventually followed by a Secret, when both reconcilers are invoked again and
\* again and store and server eventually answer. A positive maximum age is
\* given the benefit of a clock that does not outrun the reconciler: for it,
\* a SplunkToken that aged before a pass provisioned it is not counted.
C35_ProvisioningCompletes ==
    \A a \in MaxAges :
        (splunkConfig.TokenMaxAge = a /\ token.exists /\ cd.exists)
            ~> (secret.exists \/ (a # 0 /\ Aged))


\* No pass of either reconciler is under way, and none that starts now would
\* write or call anything: the SplunkToken is fresh and has the indexes the
\* ClusterDeployment asks for, and its Secret exists.
Quiescent ==
    /\ ~Running("w1")
    /\ ~CdRunning
    /\ cd.exists /\ ~LabelMissing
    /\ token.exists
    /\ ~token.DeletionTimestamp
    /\ ~Aged
    /\ SameIndexes(DesiredSpec, token.Spec)
    /\ secret.exists
    /\ secret.owner = token.uid

\* C36 as stated: whenever the system is quiescent and the Secret of the
\* SplunkToken exists, the server holds an HEC token of the SplunkToken's name
\* whose default index and allowed indexes are those of the stored spec with
\* the default index appended where it is missing, also after the
\* ClusterDeploymentReconciler has overwritten the stored spec and after a
\* POST that was answered 409.
C36_RemoteTracksSpec ==
    Quiescent =>
        \E c \in remote :
            /\ c.Spec.Name = token.Spec.Name
            /\ SameIndexes(c.Spec, CreateTokenPayload(token.Spec))

\* C37 as stated: a Secret in the store holds, in its outputs.conf, the value
\* of an HEC token the server issued, never the empty value, also when the
\* read that follows the POST is answered with a record without token value.
C37_SecretHasValue ==
    secret.exists => \E v \in IssuedValues : SecretCarries(v)


\* C38: in every state, after passes that failed or crashed at any step
\* included, a Secret in the store is whole: it is named splunk-hec-token in
\* the namespace, holds under outputs.conf, and under no other key, the
\* [httpout] stanza with the value of an HEC token the server issued and the
\* collector URI of the configured instance, is immutable, and is owned by a
\* SplunkToken that was created; and a SplunkToken in the store for which an
\* HEC token was created that the server still holds carries the finalizer.
C38_NoHalfWrittenState ==
    /\ secret.exists =>
          /\ secret.Name = "splunk-hec-token"
          /\ secret.Namespace = Namespace
          /\ DOMAIN secret.Data = {"outputs.conf"}
          /\ \E v \in IssuedValues :
                secret.Data["outputs.conf"] =
                    "[httpout]\nhttpEventCollectorToken = " \o v
                       \o "\nuri = https://http-inputs-" \o splunkConfig.SplunkInstance
                       \o ".splunkcloud.com:443"
          /\ secret.Immutable
          /\ secret.owner \in 1..nextUid
    /\ \A c \in remote :
          (token.exists /\ token.uid = c.createdFor) =>
              TokenFinalizer \in token.Finalizers

\* A pass created the HEC token and read it back, and r.Create of the Secret
\* failed: there is no Secret, and the SplunkToken has the finalizer.
C38_Witness ==
    /\ st["w1"].pc = "done" /\ st["w1"].res = "err"
    /\ Entry("Create", "Secret", FALSE) \in Range(st["w1"].log)
    /\ st["w1"].StatusCode = StatusAccepted
    /\ ~secret.exists
    /\ token.exists /\ ~token.DeletionTimestamp
    /\ TokenFinalizer \in token.Finalizers
    /\ \E c \in remote : c.createdFor = token.uid

====
